---- MODULE Spec2Model ----
(***************************************************************************)
(* Model of the news-crawler-service: the `crawl`, `get-article` and       *)
(* `ai-summarize` commands of run.py, the article converter, and the pure  *)
(* helpers they use.  Strings are sequences of one-character strings; the  *)
(* characters "Y", "M", "D" stand for the CJK date markers U+5E74, U+6708   *)
(* and U+65E5 of the pattern in _generate_mock_summary.                    *)
(***************************************************************************)
EXTENDS Integers, Sequences, FiniteSets, TLC

VARIABLES
    cmd,              \* the entry point being run
    pc,               \* position inside the entry point
    clock,            \* current Asia/Shanghai calendar day (day of the month)
    outputDir,        \* names of the regular files in the output directory
    ret,              \* value returned by the flow's top function
    exc,              \* exception that escaped to the interpreter, or "none"
    exitStatus,       \* process exit status, -1 while running
    statusLine,       \* the final status line printed by run.py main
    \* ---- ai-summarize ----
    args,             \* api_key / use_mock arguments and DEEPSEEK_API_KEY
    scanned,          \* dates scanned by find_matching_files, in order
    matching_files,   \* result of find_matching_files
    selected_file,    \* result of select_random_file (<<>> is None)
    content_data,     \* result of extract_content (<<>> is None)
    summarizer,       \* the AISummarizer instance (<<>> before construction)
    summary_data,     \* result of summarize (<<>> is None)
    summary_file,     \* result of save_summary (<<>> is None)
    steps,            \* steps of run_summarize executed so far, in order
    apiCalls,         \* number of requests sent to the chat-completion endpoint
    \* ---- crawl ----
    date_arg,         \* --date (<<>> when not given)
    only_article,     \* --only-article
    versions,         \* section links extracted from the edition root
    vidx,             \* number of section links already processed
    all_versions_data,\* sections collected by PeoplesDailyCrawler.crawl
    crawl_result,     \* result dict of PeoplesDailyCrawler.crawl (<<>> before)
    news_ok,          \* value returned by process_news: "none", "True", "False"
    article_result,   \* result dict of fetch_first_article (<<>> before)
    net,              \* network requests and sleeps issued, in order
    stages,           \* stages of the command executed so far, in order
    \* ---- get-article / converter ----
    format_type,      \* --format
    input_path,       \* the HTML file handed to convert_article
    convert_result,   \* result dict of ArticleConverter.convert (<<>> before)
    \* ---- token counter ----
    messages,         \* the chat messages handed to estimate_input_tokens
    token_counts,     \* count_tokens of each message's content (<<>> before)
    input_tokens,     \* result of estimate_input_tokens (<<>> before)
    saved_tokens,     \* token fields of the summary file last written (<<>> if none)
    \* ---- article parser and formatter ----
    html_doc,         \* the HTML document handed to the parser (<<>> if none)
    article_info,     \* the article record extracted from it (<<>> before, or None)
    \* ---- the commands run earlier on the same output directory ----
    runs,             \* one record per finished command, oldest first
    \* ---- article formatter ----
    markdown,         \* the text generate_markdown_article returned (<<>> before)
    json_metadata,    \* the dict generate_json_metadata dumps (<<>> before)
    article_content,  \* what extract_article_content returned (<<>> before)
    html_report,      \* the lines of the {date}.html index last written
    md_report         \* the lines of the {date}.md index last written

vars == <<cmd, pc, clock, outputDir, ret, exc, exitStatus, statusLine,
          args, scanned, matching_files, selected_file, content_data,
          summarizer, summary_data, summary_file, steps, apiCalls,
          date_arg, only_article, versions, vidx, all_versions_data, crawl_result,
          news_ok, article_result, net, stages,
          format_type, input_path, convert_result,
          messages, token_counts, input_tokens, saved_tokens,
          html_doc, article_info, runs,
          markdown, json_metadata, article_content, html_report, md_report>>

summVars == <<args, scanned, matching_files, selected_file, content_data,
              summarizer, summary_data, summary_file, steps, apiCalls>>
crawlVars == <<date_arg, only_article, versions, vidx, all_versions_data, crawl_result,
               news_ok, article_result, net, stages>>
convVars == <<format_type, input_path, convert_result>>
tokVars == <<messages, token_counts, input_tokens, saved_tokens>>
artVars == <<html_doc, article_info>>
fmtVars == <<markdown, json_metadata, article_content, html_report, md_report>>

-----------------------------------------------------------------------------
(* Bounds of the model *)

\* the day of the month the run starts on
StartDay == 3
\* how many times midnight may pass during one run
MaxTicks == 1
\* the largest number of section links on an edition root page
MaxSections == 2
\* the largest number of news items on one section page
MaxNews == 1
\* the largest number of text fragments an article body is assembled from
MaxFragments == 3
\* the longest message content handed to the token counter
MaxTextLen == 3

-----------------------------------------------------------------------------
(* Strings *)

None == <<>>
Some(x) == <<x>>
IsNone(o) == o = <<>>
The(o) == o[1]

Digits == {"0", "1", "2", "3", "4", "5", "6", "7", "8", "9"}
DigitOf(n) == <<"0", "1", "2", "3", "4", "5", "6", "7", "8", "9">>[(n % 10) + 1]

IsDigit(c) == c \in Digits

StartsWith(s, p) == Len(s) >= Len(p) /\ SubSeq(s, 1, Len(p)) = p
EndsWith(s, p) == Len(s) >= Len(p) /\ SubSeq(s, Len(s) - Len(p) + 1, Len(s)) = p

\* datetime.strftime('%Y%m%d') of a day of April 2025
Strftime_Ymd(d) == <<"2", "0", "2", "5", "0", "4", DigitOf(d \div 10), DigitOf(d)>>
\* datetime.strftime('%Y-%m-%d')
Strftime_Y_m_d(d) ==
    <<"2", "0", "2", "5", "-", "0", "4", "-", DigitOf(d \div 10), DigitOf(d)>>

MdExt == <<".", "m", "d">>
HtmlExt == <<".", "h", "t", "m", "l">>
JsonExt == <<".", "j", "s", "o", "n">>
AiSuffix == <<"-", "a", "i", "-", "s", "u", "m", "m", "a", "r", "i", "z", "e">>

\* "-SSAA": section number and article number, two digits each
ArticleTail(s, a) == <<"-", DigitOf(s \div 10), DigitOf(s), DigitOf(a \div 10), DigitOf(a)>>

\* os.path.splitext(name)[0]
RECURSIVE LastDot(_, _)
LastDot(s, i) == IF i = 0 THEN 0 ELSE IF s[i] = "." THEN i ELSE LastDot(s, i - 1)
SplitextBase(name) ==
    LET k == LastDot(name, Len(name))
    IN  IF k <= 1 THEN name ELSE SubSeq(name, 1, k - 1)

-----------------------------------------------------------------------------
(* FileFinder *)

get_current_date(now) == Strftime_Ymd(now)
get_yesterday_date(now) == Strftime_Ymd(now - 1)

\* re.match(f"^{date}-.*\\.md$", filename)
MatchesDatePattern(filename, date) ==
    /\ StartsWith(filename, date \o <<"-">>)
    /\ EndsWith(filename, MdExt)
    /\ Len(filename) >= Len(date) + 1 + Len(MdExt)

\* re.match(r'^\d{8}-\d{4}\.md$', filename)
MatchesArticlePattern(filename) ==
    /\ Len(filename) = 16
    /\ \A i \in 1..8 : IsDigit(filename[i])
    /\ filename[9] = "-"
    /\ \A i \in 10..13 : IsDigit(filename[i])
    /\ SubSeq(filename, 14, 16) = MdExt

\* names of the output directory that are directories, not regular files
SubdirNames == { Strftime_Ymd(StartDay - 1) \o ArticleTail(1, 2) \o MdExt }
IsFile(filename) == filename \notin SubdirNames

_find_files_by_pattern(listing, date) ==
    { f \in listing : /\ MatchesDatePattern(f, date)
                      /\ MatchesArticlePattern(f)
                      /\ IsFile(f) }

\* today and yesterday are the two clock reads of find_matching_files
find_matching_files_Mixes(listing, today, yesterday) ==
    _find_files_by_pattern(listing, get_current_date(today))
        \cup _find_files_by_pattern(listing, get_yesterday_date(yesterday))
find_matching_files(listing, today, yesterday) ==
    LET today_files == _find_files_by_pattern(listing, get_current_date(today))
        yesterday_files == _find_files_by_pattern(listing, get_yesterday_date(yesterday))
    IN  IF today_files # {} THEN today_files
        ELSE IF yesterday_files # {} THEN yesterday_files
        ELSE {}

-----------------------------------------------------------------------------
(* FileProcessor *)

\* dict.get(key, default)
Get_IgnoresKey(d, key, default) == default
Get(d, key, default) == IF key \in DOMAIN d THEN d[key] ELSE default

\* extract_content, once the file has been read: raw is the parsed file,
\* [metadata |-> frontmatter key/values, content |-> text after the frontmatter]
extract_content(file_path, raw) ==
    [file_path |-> file_path, file_name |-> file_path,
     metadata |-> raw.metadata, content |-> raw.content]

-----------------------------------------------------------------------------
(* AISummarizer *)

\* truthiness of an api key: None and "" are falsy
Truthy(key) == key \notin {"None", ""}

\* __init__: the api key is the argument unless the argument is None, and
\* then the DEEPSEEK_API_KEY environment variable (None when unset)
AISummarizer_init_KeepsMockFlag(api_key, env_key, use_mock, has_openai) ==
    LET key == IF api_key = "None" THEN env_key ELSE api_key
    IN  [api_key |-> key, use_mock |-> use_mock, has_openai |-> has_openai]
AISummarizer_init(api_key, env_key, use_mock, has_openai) ==
    LET key == IF api_key = "None" THEN env_key ELSE api_key
    IN  [api_key |-> key,
         use_mock |-> (use_mock \/ ~Truthy(key)),
         has_openai |-> has_openai]

\* length of the match of \d{4}Y\d{1,2}M\d{1,2}D at position i of s, 0 if none.
\* \d{1,2} is greedy: two digits are tried before one.
DigitsAt(s, i, n) == i + n - 1 <= Len(s) /\ \A k \in i..(i + n - 1) : IsDigit(s[k])
CharAt(s, i, c) == i <= Len(s) /\ s[i] = c
MatchLenAt(s, i) ==
    IF ~(DigitsAt(s, i, 4) /\ CharAt(s, i + 4, "Y")) THEN 0
    ELSE LET mo == IF DigitsAt(s, i + 5, 2) /\ CharAt(s, i + 7, "M") THEN 2
                   ELSE IF DigitsAt(s, i + 5, 1) /\ CharAt(s, i + 6, "M") THEN 1
                   ELSE 0
             dstart == i + 5 + mo + 1
             da == IF DigitsAt(s, dstart, 2) /\ CharAt(s, dstart + 2, "D") THEN 2
                   ELSE IF DigitsAt(s, dstart, 1) /\ CharAt(s, dstart + 1, "D") THEN 1
                   ELSE 0
         IN  IF mo = 0 \/ da = 0 THEN 0 ELSE 4 + 1 + mo + 1 + da + 1

\* re.findall(time_pattern, content): the non-overlapping matches, left to right
RECURSIVE FindAllFrom(_, _)
FindAllFrom(s, i) ==
    IF i > Len(s) THEN <<>>
    ELSE LET n == MatchLenAt(s, i)
         IN  IF n > 0 THEN <<SubSeq(s, i, i + n - 1)>> \o FindAllFrom(s, i + n)
             ELSE FindAllFrom(s, i + 1)
re_findall_time(content) == FindAllFrom(content, 1)

\* times[0] if times else date
PickTime_Last(times, date) == IF times # <<>> THEN times[Len(times)] ELSE date
PickTime(times, date) == IF times # <<>> THEN times[1] ELSE date

\* the default title, four CJK characters
UnknownTitle == <<"c", "c", "c", "c">>

\* _generate_mock_summary: the fields of the template that vary
_generate_mock_summary(cd, now) ==
    LET metadata == cd.metadata
        title == Get(metadata, "title", UnknownTitle)
        date == Get(metadata, "date", Strftime_Y_m_d(now))
        times == re_findall_time(cd.content)
    IN  [time |-> PickTime(times, date), event |-> title]

-----------------------------------------------------------------------------
(* TokenCounter *)

\* A character stands for its class: "c", "Y", "M" and "D" are characters
\* whose Unicode name contains CJK, " " is whitespace, any other character is
\* neither.
\* _is_chinese
IsChinese(char) == char \in {"c", "Y", "M", "D"}
NL == "\n"
IsSpace(char) == char \in {" ", NL}

\* str.strip()
RECURSIVE LStrip(_)
LStrip(s) == IF s # <<>> /\ IsSpace(Head(s)) THEN LStrip(Tail(s)) ELSE s
RECURSIVE RStrip(_)
RStrip(s) ==
    IF s # <<>> /\ IsSpace(s[Len(s)]) THEN RStrip(SubSeq(s, 1, Len(s) - 1)) ELSE s
Strip(s) == RStrip(LStrip(s))

\* sum(1 for char in text if self._is_chinese(char))
CountChinese(s) == Cardinality({ k \in 1..Len(s) : IsChinese(s[k]) })

\* int(x + 0.5) for x >= 0 given in quarters
IntOfQuartersPlusHalf_Truncates(quarters) == quarters \div 4
IntOfQuartersPlusHalf(quarters) == (quarters + 2) \div 4

count_tokens(text) ==
    IF text = <<>> THEN 0
    ELSE LET stripped == Strip(text)
             chinese_chars == CountChinese(stripped)
             non_chinese_chars == Len(stripped) - chinese_chars
         IN  IntOfQuartersPlusHalf(4 * chinese_chars + non_chinese_chars)

message_overhead == 4

\* the loop of estimate_input_tokens over the messages
RECURSIVE MessagesTotal_OverheadOnce(_)
MessagesTotal_OverheadOnce(msgs) ==
    IF msgs = <<>> THEN 0
    ELSE count_tokens(Get(Head(msgs), "content", <<>>))
         + (IF Len(msgs) = 1 THEN message_overhead ELSE 0)
         + MessagesTotal_OverheadOnce(Tail(msgs))
RECURSIVE MessagesTotal(_)
MessagesTotal(msgs) ==
    IF msgs = <<>> THEN 0
    ELSE count_tokens(Get(Head(msgs), "content", <<>>)) + message_overhead
         + MessagesTotal(Tail(msgs))

estimate_input_tokens(msgs) ==
    IF msgs = <<>> THEN 0 ELSE MessagesTotal(msgs) + 3

estimate_output_tokens(word_count, is_chinese) ==
    IF is_chinese THEN word_count ELSE IntOfQuartersPlusHalf(word_count)

\* estimate_cost, in units of 10^-7 dollar: a token of input costs
\* 0.0005 / 1000 dollar, a token of output 0.0025 / 1000 dollar
estimate_cost(in_tokens, out_tokens) == 5 * in_tokens + 25 * out_tokens

-----------------------------------------------------------------------------
(* Inputs of the ai-summarize command *)

\* the latest day the clock can show during the run
LastDay == StartDay + MaxTicks
\* the values a read of the clock can give, the clock showing at least `now`
ClockReads(now) == now..LastDay

DateA == <<"2", "0", "2", "5", "Y", "4", "M", "1", "0", "D">>
DateB == <<"2", "0", "2", "4", "Y", "1", "2", "M", "3", "D">>

\* file names the output directory may hold when ai-summarize starts
SummNames ==
    { Strftime_Ymd(d) \o ArticleTail(1, 1) \o MdExt : d \in (StartDay - 2)..StartDay }
    \cup { Strftime_Ymd(StartDay) \o ArticleTail(1, 2) \o MdExt }
    \cup { Strftime_Ymd(StartDay) \o ArticleTail(1, 1) \o AiSuffix \o MdExt }
    \cup { Strftime_Ymd(StartDay) \o MdExt }
    \cup SubdirNames

EmptyDict == [k \in {} |-> <<>>]
FlowMetadatas ==
    { [title |-> <<"T">>, date |-> <<"2", "0", "2", "5", "-", "0", "4", "-", "0", "1">>],
      EmptyDict }
FlowBodies == { <<"x">>, <<"x">> \o DateB \o DateA }
FlowFiles == { [metadata |-> m, content |-> b] : m \in FlowMetadatas, b \in FlowBodies }

ApiKeys == {"None", "", "sk"}
EnvKeys == {"None", "sk"}
\* outcome of the chat-completion request: an error (None), or the returned
\* characters
ApiResponses == { None, Some(<<"s">>), Some(<<"s", "s", "s">>) }

NoArgs == [api_key |-> "None", env_key |-> "None", use_mock |-> FALSE]

-----------------------------------------------------------------------------
(* summarize/main.py: run_summarize *)

\* where run_summarize goes after a step: a falsy result returns False at once
NextStep_IgnoresFailure(step, ok) ==
    CASE step = "find" -> "select"
      [] step = "select" -> "extract"
      [] step = "extract" -> "construct"
      [] step = "summarize" -> "save"
      [] step = "save" -> "returned"
NextStep(step, ok) ==
    IF ~ok THEN "returned"
    ELSE CASE step = "find" -> "select"
           [] step = "select" -> "extract"
           [] step = "extract" -> "construct"
           [] step = "summarize" -> "save"
           [] step = "save" -> "returned"

\* the value run_summarize returns when it returns after `step`
ReturnValue(step, ok) == IF ok /\ step = "save" THEN "True" ELSE "False"

SmAfter(step, ok) ==
    /\ steps' = Append(steps, step)
    /\ pc' = NextStep(step, ok)
    /\ ret' = IF pc' = "returned" THEN ReturnValue(step, ok) ELSE ret

\* step 1: FileFinder.find_matching_files (two reads of the clock)
SmFind ==
    /\ cmd = "ai-summarize" /\ pc = "find"
    /\ \E t1 \in ClockReads(clock) :
         LET today_files == _find_files_by_pattern(outputDir, get_current_date(t1))
         IN  \E t2 \in (IF today_files # {} THEN {t1} ELSE ClockReads(t1)) :
               /\ clock' = t2
               /\ matching_files' = find_matching_files(outputDir, t1, t2)
               /\ scanned' = IF today_files # {}
                             THEN <<get_current_date(t1)>>
                             ELSE <<get_current_date(t1), get_yesterday_date(t2)>>
    /\ SmAfter("find", matching_files' # {})
    /\ UNCHANGED <<cmd, outputDir, exc, exitStatus, statusLine, args, selected_file,
                   content_data, summarizer, summary_data,
                   summary_file, apiCalls>>
    /\ UNCHANGED <<crawlVars, convVars>>
    /\ UNCHANGED tokVars
    /\ UNCHANGED artVars
    /\ UNCHANGED runs
    /\ UNCHANGED fmtVars

\* step 2a: FileProcessor.select_random_file
SmSelect ==
    /\ cmd = "ai-summarize" /\ pc = "select"
    /\ \E choice \in (IF matching_files = {} THEN {None}
                      ELSE { Some(f) : f \in matching_files }) :
         selected_file' = choice
    /\ SmAfter("select", ~IsNone(selected_file'))
    /\ UNCHANGED <<cmd, clock, outputDir, exc, exitStatus, statusLine, args, scanned,
                   matching_files, content_data, summarizer, summary_data,
                   summary_file, apiCalls>>
    /\ UNCHANGED <<crawlVars, convVars>>
    /\ UNCHANGED tokVars
    /\ UNCHANGED artVars
    /\ UNCHANGED runs
    /\ UNCHANGED fmtVars

\* step 2b: FileProcessor.extract_content; the file may have vanished or be
\* unreadable, and then the result is None
SmExtract ==
    /\ cmd = "ai-summarize" /\ pc = "extract"
    /\ \E outcome \in {None} \cup
                      { Some(extract_content(The(selected_file), raw)) : raw \in FlowFiles } :
         content_data' = outcome
    /\ SmAfter("extract", ~IsNone(content_data'))
    /\ UNCHANGED <<cmd, clock, outputDir, exc, exitStatus, statusLine, args, scanned,
                   matching_files, selected_file, summarizer, summary_data,
                   summary_file, apiCalls>>
    /\ UNCHANGED <<crawlVars, convVars>>
    /\ UNCHANGED tokVars
    /\ UNCHANGED artVars
    /\ UNCHANGED runs
    /\ UNCHANGED fmtVars

\* step 3a: AISummarizer(api_key, output_dir, use_mock)
SmConstruct ==
    /\ cmd = "ai-summarize" /\ pc = "construct"
    /\ \E k \in ApiKeys, e \in EnvKeys, m \in BOOLEAN, o \in BOOLEAN :
         /\ args' = [api_key |-> k, env_key |-> e, use_mock |-> m]
         /\ summarizer' = Some(AISummarizer_init(k, e, m, o))
    /\ pc' = "summarize"
    /\ UNCHANGED <<cmd, clock, outputDir, ret, exc, exitStatus, statusLine, scanned,
                   matching_files, selected_file, content_data, summary_data,
                   summary_file, steps, apiCalls>>
    /\ UNCHANGED <<crawlVars, convVars>>
    /\ UNCHANGED tokVars
    /\ UNCHANGED artVars
    /\ UNCHANGED runs
    /\ UNCHANGED fmtVars

\* the characters of the system message and of the prompt template around
\* the article content, each by its class
SystemContent ==
    << "c", "c", "c", "c", "c", "c", "c", "c", "c", "c", "c", "c", "c", "a", "c", "c",
       "c", "c", "c", "c", "c", "c", "c", "c", "c", "c", "c", "a", "c", "c", "c", "c",
       "c", "c", "c", "c", "c", "c", "c", "c", "c", "c", "a" >>
PromptHead ==
    << " ", "a", "c", "c", "c", "c", "a", " " >>
PromptTail ==
    << " ", "a", "a", "a", " ", "c", "c", "c", "c", "c", "c", "c", "c", "c", "c", "a",
       "c", "c", "c", "c", "c", "a", "a", "a", "c", "c", "a", "c", "c", "c", "c", "c",
       "c", "c", "c", "c", "a", " ", "a", "a", "a", " ", "a", " ", "c", "c", "a", " ",
       "a", " ", "c", "c", "a", " ", "a", " ", "c", "c", "a", " ", "a", " ", "c", "c",
       "a", " ", "a", " ", "c", "c", "a", " ", "a", " ", "c", "c", "a", " ", "a", "a",
       "a", " ", "c", "c", "c", "c", "c", "c", "a", "c", "c", "c", "c", "c", "c", "c",
       "c", "c", "c", "a", " " >>

_generate_fixed_prompt(cd) == PromptHead \o Get(cd, "content", <<>>) \o PromptTail

\* the messages of the request
SummarizeMessages(cd) ==
    << [role |-> "system", content |-> SystemContent],
       [role |-> "user", content |-> _generate_fixed_prompt(cd)] >>

\* len(mock_summary): the template has 111 characters besides time and title
MockSummaryLen(ms) == 111 + Len(ms.time) + Len(ms.event)

\* the tokens entry of the result: output is the length of the summary, the
\* cost is estimated before the request on an output of 200 characters
TokensInfo_CostOfInput(cd, summary_len) ==
    LET in_tokens == estimate_input_tokens(SummarizeMessages(cd))
    IN  [input |-> in_tokens,
         output |-> summary_len,
         estimated_cost |-> estimate_cost(in_tokens, 0)]
TokensInfo(cd, summary_len) ==
    LET in_tokens == estimate_input_tokens(SummarizeMessages(cd))
        out_tokens == estimate_output_tokens(200, TRUE)
    IN  [input |-> in_tokens,
         output |-> summary_len,
         estimated_cost |-> estimate_cost(in_tokens, out_tokens)]

\* AISummarizer.summarize: the result (None on failure) and the number of
\* requests sent to the endpoint.  resp is the outcome of the request.
summarize_Retries(s, cd, now, resp) ==
    IF s.use_mock
    THEN LET ms == _generate_mock_summary(cd, now)
         IN  [result |-> Some([original_content |-> cd,
                               summary |-> [kind |-> "mock", text |-> ms],
                               tokens |-> TokensInfo(cd, MockSummaryLen(ms))]),
              calls |-> 0]
    ELSE IF IsNone(resp)
    THEN [result |-> None, calls |-> 2]
    ELSE [result |-> Some([original_content |-> cd,
                           summary |-> [kind |-> "api", text |-> The(resp)],
                           tokens |-> TokensInfo(cd, Len(The(resp)))]),
          calls |-> 1]
summarize(s, cd, now, resp) ==
    IF ~Truthy(s.api_key) /\ ~s.use_mock
    THEN [result |-> None, calls |-> 0]
    ELSE IF s.use_mock
    THEN LET ms == _generate_mock_summary(cd, now)
         IN  [result |-> Some([original_content |-> cd,
                               summary |-> [kind |-> "mock", text |-> ms],
                               tokens |-> TokensInfo(cd, MockSummaryLen(ms))]),
              calls |-> 0]
    ELSE IF IsNone(resp)
    THEN [result |-> None, calls |-> 1]
    ELSE [result |-> Some([original_content |-> cd,
                           summary |-> [kind |-> "api", text |-> The(resp)],
                           tokens |-> TokensInfo(cd, Len(The(resp)))]),
          calls |-> 1]

\* f"{cost:.6f}": the cost in 10^-7 dollar printed in 10^-6 dollar; a cost
\* half way between two printed values goes to either, as the binary value
\* of the float decides
SixDecimals(cost) ==
    IF cost % 10 = 5 THEN { cost \div 10, cost \div 10 + 1 }
    ELSE { (cost + 5) \div 10 }

\* the token fields save_summary writes to the frontmatter
SavedTokens(sd) ==
    { [input_tokens |-> sd.tokens.input,
       output_chars |-> sd.tokens.output,
       estimated_cost |-> printed] : printed \in SixDecimals(sd.tokens.estimated_cost) }

\* AISummarizer.save_summary: the name of the file it writes
SummaryFileName_Numbered(sd) ==
    SubSeq(sd.original_content.file_name, 1, 8) \o ArticleTail(1, 2) \o MdExt
SummaryFileName(sd) == SplitextBase(sd.original_content.file_name) \o AiSuffix \o MdExt

\* step 3b: summarizer.summarize(content_data)
SmSummarize ==
    /\ cmd = "ai-summarize" /\ pc = "summarize"
    /\ \E now \in ClockReads(clock), resp \in ApiResponses :
         LET r == summarize(The(summarizer), The(content_data), now, resp)
         IN  /\ clock' = now
             /\ summary_data' = r.result
             /\ apiCalls' = apiCalls + r.calls
    /\ SmAfter("summarize", ~IsNone(summary_data'))
    /\ UNCHANGED <<cmd, outputDir, exc, exitStatus, statusLine, args, scanned,
                   matching_files, selected_file, content_data, summarizer,
                   summary_file>>
    /\ UNCHANGED <<crawlVars, convVars>>
    /\ UNCHANGED tokVars
    /\ UNCHANGED artVars
    /\ UNCHANGED runs
    /\ UNCHANGED fmtVars

\* step 4: summarizer.save_summary(summary_data); the write may fail
SmSave ==
    /\ cmd = "ai-summarize" /\ pc = "save"
    /\ \E written \in BOOLEAN :
         /\ outputDir' = IF written
                         THEN outputDir \cup {SummaryFileName(The(summary_data))}
                         ELSE outputDir
         /\ IF written
            THEN \E fields \in SavedTokens(The(summary_data)) : saved_tokens' = Some(fields)
            ELSE saved_tokens' = saved_tokens
         /\ summary_file' = IF written
                            THEN Some(SummaryFileName(The(summary_data)))
                            ELSE None
         /\ SmAfter("save", written)
    /\ UNCHANGED <<cmd, clock, exc, exitStatus, statusLine, args, scanned,
                   matching_files, selected_file, content_data, summarizer,
                   summary_data, apiCalls>>
    /\ UNCHANGED <<crawlVars, convVars>>
    /\ UNCHANGED <<messages, token_counts, input_tokens>>
    /\ UNCHANGED artVars
    /\ UNCHANGED runs
    /\ UNCHANGED fmtVars

\* sys.exit(main()): main returns 0 if success else 1
ExitCode_AlwaysZero(success) == 0
ExitCode(success) == IF success THEN 0 ELSE 1

\* run.py main, ai-summarize branch: the final status line and the exit status
MainSummarizeExit ==
    /\ cmd = "ai-summarize" /\ pc = "returned"
    /\ statusLine' = IF ret = "True" THEN "success" ELSE "failure"
    /\ exitStatus' = ExitCode(ret = "True")
    /\ pc' = "exit"
    /\ UNCHANGED <<cmd, clock, outputDir, ret, exc>>
    /\ UNCHANGED <<summVars, crawlVars, convVars>>
    /\ UNCHANGED tokVars
    /\ UNCHANGED artVars
    /\ UNCHANGED runs
    /\ UNCHANGED fmtVars

InitSumm ==
    /\ args = NoArgs
    /\ scanned = <<>>
    /\ matching_files = {}
    /\ selected_file = None
    /\ content_data = None
    /\ summarizer = None
    /\ summary_data = None
    /\ summary_file = None
    /\ steps = <<>>
    /\ apiCalls = 0

InitCrawl ==
    /\ versions = <<>>
    /\ vidx = 0
    /\ all_versions_data = <<>>
    /\ crawl_result = None
    /\ news_ok = "none"
    /\ article_result = None
    /\ net = <<>>
    /\ stages = <<>>

InitConv ==
    /\ convert_result = None

\* no --date, --only-article, --format or input file
InitNoArgs ==
    /\ date_arg = None
    /\ only_article = FALSE
    /\ format_type = "markdown"
    /\ input_path = None

InitArt ==
    /\ html_doc = None
    /\ article_info = None

InitTok ==
    /\ messages = <<>>
    /\ token_counts = None
    /\ input_tokens = None
    /\ saved_tokens = None

InitProcess ==
    /\ runs = <<>>
    /\ markdown = None
    /\ json_metadata = None
    /\ article_content = None
    /\ html_report = <<>>
    /\ md_report = <<>>
    /\ clock = StartDay
    /\ ret = "none"
    /\ exc = "none"
    /\ exitStatus = -1
    /\ statusLine = "none"

\* run.py ai-summarize
InitSummarize ==
    /\ cmd = "ai-summarize" /\ pc = "find"
    /\ outputDir \in SUBSET SummNames
    /\ InitTok /\ InitArt /\ InitProcess /\ InitSumm /\ InitCrawl /\ InitConv /\ InitNoArgs

NextSummarize ==
    \/ SmFind
    \/ SmSelect
    \/ SmExtract
    \/ SmConstruct
    \/ SmSummarize
    \/ SmSave
    \/ MainSummarizeExit

SpecSummarize == InitSummarize /\ [][NextSummarize]_vars

-----------------------------------------------------------------------------
(* Properties of the ai-summarize command *)

StepOrder == <<"find", "select", "extract", "summarize", "save">>

\* whether an executed step of run_summarize reported success
StepSucceeded(step) ==
    CASE step = "find" -> matching_files # {}
      [] step = "select" -> ~IsNone(selected_file)
      [] step = "extract" -> ~IsNone(content_data)
      [] step = "summarize" -> ~IsNone(summary_data)
      [] step = "save" -> ~IsNone(summary_file)

\* C1: the steps of run_summarize run in the order find, select, extract,
\* summarize, save; a step runs only if every earlier step succeeded; the run
\* returns False exactly when its last executed step failed, and True only
\* after all five steps succeeded and the summary file is in the directory.
C1_StepsInOrderAbortOnFailure ==
    cmd = "ai-summarize" =>
        /\ Len(steps) <= Len(StepOrder)
        /\ steps = SubSeq(StepOrder, 1, Len(steps))
        /\ \A i \in 1..(Len(steps) - 1) : StepSucceeded(steps[i])
        /\ (steps # <<>> /\ ~StepSucceeded(steps[Len(steps)]))
               => (ret = "False" /\ pc \in {"returned", "exit"})
        /\ ret = "False" => (steps # <<>> /\ ~StepSucceeded(steps[Len(steps)]))
        /\ ret = "True" => /\ steps = StepOrder
                           /\ \A i \in 1..Len(steps) : StepSucceeded(steps[i])
                           /\ The(summary_file) \in outputDir
        /\ (steps = StepOrder /\ StepSucceeded("save")) => ret = "True"

\* the run was cut short by a failed summarize step: save never ran
C1_Witness ==
    /\ cmd = "ai-summarize" /\ pc = "exit" /\ ret = "False"
    /\ steps = <<"find", "select", "extract", "summarize">>
    /\ IsNone(summary_data) /\ IsNone(summary_file)

\* a file named {date}-dddd.md
IsArticleOfDate(f, date) ==
    \E a, b, c, d \in Digits : f = date \o <<"-", a, b, c, d>> \o MdExt
ArticlesOfDate(listing, date) ==
    { f \in listing : IsArticleOfDate(f, date) /\ f \notin SubdirNames }
DayBefore(date) ==
    Strftime_Ymd((CHOOSE d \in 1..31 : Strftime_Ymd(d) = date) - 1)

C9_MockWithoutKey ==
    cmd = "ai-summarize" =>
        /\ ~IsNone(summarizer) =>
               (The(summarizer).use_mock \/ Truthy(The(summarizer).api_key))
        /\ apiCalls <= 1
        /\ apiCalls = 1 =>
               /\ Truthy(args.api_key) \/ Truthy(args.env_key)
               /\ ~args.use_mock
        /\ (Len(steps) >= 4 /\ (args.use_mock \/ ~(Truthy(args.api_key) \/ Truthy(args.env_key))))
               => /\ apiCalls = 0
                  /\ ~IsNone(summary_data)
                  /\ The(summary_data).summary.kind = "mock"
        /\ (Len(steps) >= 4 /\ Truthy(The(summarizer).api_key) /\ ~args.use_mock)
               => apiCalls = 1

\* no key anywhere, mock mode not requested: the placeholder was returned
C9_Witness ==
    /\ cmd = "ai-summarize" /\ Len(steps) >= 4
    /\ ~Truthy(args.api_key) /\ ~Truthy(args.env_key) /\ ~args.use_mock
    /\ ~IsNone(summary_data) /\ The(summary_data).summary.kind = "mock"
    /\ apiCalls = 0

-----------------------------------------------------------------------------
(* summarize() in mock mode, on article bodies assembled from fragments *)

\* pieces of body text: dates, text, and pieces that form or break a date
\* only together with their neighbours
Fragments ==
    { DateA, DateB, <<"x">>, <<"2", "0">>,
      <<"2", "0", "2", "5", "Y", "4", "M">>, <<"1", "D">> }

RECURSIVE BodiesOf(_)
BodiesOf(n) ==
    IF n = 0 THEN { <<>> }
    ELSE LET shorter == BodiesOf(n - 1)
         IN  shorter \cup { b \o f : b \in shorter, f \in Fragments }
MockBodies == BodiesOf(MaxFragments)

\* the summarizers that run in mock mode
MockSummarizers ==
    { s \in { AISummarizer_init(k, e, m, TRUE) : k \in ApiKeys, e \in EnvKeys, m \in BOOLEAN } :
        s.use_mock }

\* summarizer.summarize(content_data) on a summarizer in mock mode
MockSummarize ==
    /\ cmd = "mock-summarize" /\ pc = "summarize"
    /\ \E now \in ClockReads(clock), resp \in ApiResponses :
         LET r == summarize(The(summarizer), The(content_data), now, resp)
         IN  /\ clock' = now
             /\ summary_data' = r.result
             /\ apiCalls' = apiCalls + r.calls
    /\ steps' = Append(steps, "summarize")
    /\ pc' = "returned"
    /\ UNCHANGED <<cmd, outputDir, ret, exc, exitStatus, statusLine, args, scanned,
                   matching_files, selected_file, content_data, summarizer,
                   summary_file>>
    /\ UNCHANGED <<crawlVars, convVars>>
    /\ UNCHANGED tokVars
    /\ UNCHANGED artVars
    /\ UNCHANGED runs
    /\ UNCHANGED fmtVars

InitMock ==
    /\ cmd = "mock-summarize" /\ pc = "summarize"
    /\ outputDir = {}
    /\ InitTok /\ InitArt /\ InitProcess /\ InitCrawl /\ InitConv /\ InitNoArgs
    /\ args = NoArgs
    /\ scanned = <<>>
    /\ matching_files = {}
    /\ selected_file = None
    /\ \E m \in FlowMetadatas, b \in MockBodies :
         content_data = Some(extract_content(<<"f">>, [metadata |-> m, content |-> b]))
    /\ summarizer \in { Some(s) : s \in MockSummarizers }
    /\ summary_data = None
    /\ summary_file = None
    /\ steps = <<>>
    /\ apiCalls = 0

NextMock == MockSummarize

SpecMock == InitMock /\ [][NextMock]_vars

\* w is a date of the shape dddd Y d[d] M d[d] D
IsDateShape(w) ==
    \E mo \in 1..2, da \in 1..2 :
        /\ Len(w) = 4 + 1 + mo + 1 + da + 1
        /\ \A k \in 1..4 : IsDigit(w[k])
        /\ w[5] = "Y"
        /\ \A k \in 6..(5 + mo) : IsDigit(w[k])
        /\ w[6 + mo] = "M"
        /\ \A k \in (7 + mo)..(6 + mo + da) : IsDigit(w[k])
        /\ w[7 + mo + da] = "D"

\* the places <<first, last>> of body where a date of the shape occurs
DateOccurrences(body) ==
    { p \in (1..Len(body)) \X (1..Len(body)) :
        p[1] <= p[2] /\ IsDateShape(SubSeq(body, p[1], p[2])) }

\* C10: in mock mode, when the body contains at least one date of the shape,
\* the time field of the placeholder summary is the text of the occurrence
\* that starts first in the body.
C10_MockTimeIsFirstDate ==
    (cmd = "mock-summarize" /\ pc = "returned") =>
        LET body == The(content_data).content
            occ == DateOccurrences(body)
        IN  /\ ~IsNone(summary_data)
            /\ The(summary_data).summary.kind = "mock"
            /\ occ # {} =>
                 \E p \in occ :
                     /\ \A q \in occ : p[1] <= q[1]
                     /\ The(summary_data).summary.text.time = SubSeq(body, p[1], p[2])

\* the body holds two different dates and the metadata a third one
C10_Witness ==
    /\ cmd = "mock-summarize" /\ pc = "returned"
    /\ "date" \in DOMAIN The(content_data).metadata
    /\ LET body == The(content_data).content
       IN  /\ \E p, q \in DateOccurrences(body) :
                /\ p[1] < q[1]
                /\ SubSeq(body, p[1], p[2]) # SubSeq(body, q[1], q[2])
           /\ The(summary_data).summary.text.time = DateB

-----------------------------------------------------------------------------
(* The crawl command: run.py main, main.py process_news, crawler/main.py *)

Min(a, b) == IF a <= b THEN a ELSE b
\* the Python slice s[a:b]
Slice(s, a, b) == SubSeq(s, a + 1, Min(b, Len(s)))

\* int(s) succeeds
IntParses(s) == s # <<>> /\ \A i \in 1..Len(s) : IsDigit(s[i])

\* re.search(r'/(\d{6})/(\d{2})/', url), the url being built from date[:4],
\* date[4:6] and date[6:8]
UrlHasDate(date) == Len(date) >= 8 /\ \A i \in 1..8 : IsDigit(date[i])

\* PeoplesDailyCrawler.__init__: the date of the edition, from the url when it
\* carries one and from the clock otherwise
CrawlerDateString_FromClock(date, now) == Strftime_Ymd(now)
CrawlerDateString(date, now) ==
    IF ~IsNone(date) /\ The(date) # <<>> /\ UrlHasDate(The(date))
    THEN Slice(The(date), 0, 8)
    ELSE Strftime_Ymd(now)

\* whether constructing the crawler reads the clock
CrawlerReadsClock(date) == IsNone(date) \/ The(date) = <<>> \/ ~UrlHasDate(The(date))

\* the values of --date
DateArgs == { None, Some(Strftime_Ymd(StartDay - 1)), Some(<<"b", "a", "d">>) }

\* entries of the request log
Request(target, ok) == [op |-> "get", target |-> target, ok |-> ok]
Sleep == [op |-> "sleep", target |-> <<"sleep", 0>>, ok |-> TRUE]

\* the section links of an edition root page, in document order
SectionLinks(n) == [i \in 1..n |-> i]

\* run.py main, crawl branch: the edition stage is skipped with --only-article
MainCrawl ==
    /\ cmd = "crawl" /\ pc = "main"
    /\ pc' = IF ~only_article THEN "root" ELSE "article"
    /\ UNCHANGED <<cmd, clock, outputDir, ret, exc, exitStatus, statusLine>>
    /\ UNCHANGED <<summVars, crawlVars, convVars>>
    /\ UNCHANGED tokVars
    /\ UNCHANGED artVars
    /\ UNCHANGED runs
    /\ UNCHANGED fmtVars

\* where crawl goes after steps 1 and 2: it returns the failure result when
\* the root page or its section links are missing
AfterRoot_ReportsAnyway(found) == IF found = <<>> THEN "report" ELSE "section"
AfterRoot(found) == IF found = <<>> THEN "convert" ELSE "section"

\* process_news -> crawl_peoples_daily -> crawl, steps 1 and 2: the edition
\* root page and its section links
CrawlRoot ==
    /\ cmd = "crawl" /\ pc = "root"
    /\ stages' = Append(stages, "edition")
    /\ \E now \in (IF CrawlerReadsClock(date_arg) THEN ClockReads(clock) ELSE {clock}),
          fetched \in BOOLEAN, n \in 0..MaxSections :
         LET result == [success |-> FALSE, versions_data |-> <<>>,
                        date_string |-> CrawlerDateString(date_arg, now),
                        html_path |-> <<>>]
             found == IF fetched THEN SectionLinks(n) ELSE <<>>
         IN  /\ clock' = now
             /\ net' = Append(net, Request(<<"root", 0>>, fetched))
             /\ crawl_result' = Some(result)
             /\ versions' = found
             /\ pc' = AfterRoot(found)
    /\ UNCHANGED <<cmd, outputDir, ret, exc, exitStatus, statusLine>>
    /\ UNCHANGED <<date_arg, only_article, vidx, all_versions_data, news_ok,
                   article_result>>
    /\ UNCHANGED <<summVars, convVars>>
    /\ UNCHANGED tokVars
    /\ UNCHANGED artVars
    /\ UNCHANGED runs
    /\ UNCHANGED fmtVars

\* the index of the loop over the sections after one pass of its body: the
\* `continue` of a failed fetch and the end of the body both go to the next one
NextSection_Breaks(i, n, fetched) == IF fetched THEN i + 1 ELSE n
NextSection(i, n, fetched) == i + 1

\* what one pass of the loop does on the network: the delay at the top of the
\* body, then the request for the section page
SectionPass_SleepsAtEnd(version, fetched) ==
    IF fetched THEN <<Request(<<"section", version>>, fetched), Sleep>>
    ELSE <<Request(<<"section", version>>, fetched)>>
SectionPass(version, fetched) == <<Sleep, Request(<<"section", version>>, fetched)>>

\* crawl, step 3: one pass of the loop over the section links
CrawlSection ==
    /\ cmd = "crawl" /\ pc = "section" /\ vidx < Len(versions)
    /\ \E fetched \in BOOLEAN, news \in 0..MaxNews :
         LET version == versions[vidx + 1]
             version_data == [title |-> version, url |-> version, news |-> news]
         IN  /\ net' = net \o SectionPass(version, fetched)
             /\ all_versions_data' = IF fetched
                                     THEN Append(all_versions_data, version_data)
                                     ELSE all_versions_data
             /\ vidx' = NextSection(vidx, Len(versions), fetched)
             /\ pc' = IF vidx' >= Len(versions) THEN "report" ELSE "section"
    /\ UNCHANGED <<cmd, clock, outputDir, ret, exc, exitStatus, statusLine>>
    /\ UNCHANGED <<date_arg, only_article, versions, crawl_result, news_ok,
                   article_result, stages>>
    /\ UNCHANGED <<summVars, convVars>>
    /\ UNCHANGED tokVars
    /\ UNCHANGED artVars
    /\ UNCHANGED runs
    /\ UNCHANGED fmtVars

\* ---- the two renderings of the edition index ----
\* A section URL is kept as the number of its node_NN.html page, so
\* _extract_version_id, int(re.search(r'node_(\d+)\.html', url).group(1)),
\* reads that number back.
_extract_version_id(url) == url

\* f"{i:02d}" for i < 100
Format02d(i) == <<ToString(i \div 10), ToString(i % 10)>>

\* f".../layout/{date_string[:6]}/{date_string[6:8]}/node_{i:02d}.html"
LayoutUrl(date_string, i) ==
    [month |-> Slice(date_string, 0, 6), day |-> Slice(date_string, 6, 8),
     node |-> Format02d(i)]

\* version['news']: the news items of a fetched section, in page order
NewsOf(version) ==
    [j \in 1..version.news |-> [title |-> <<"news", version.url, j>>,
                                url   |-> <<"content", version.url, j>>]]

\* for i, version in enumerate(versions_data, start): the heading of the
\* section, then one entry for each of its news items
RECURSIVE JoinLines(_)
JoinLines(parts) ==
    IF parts = <<>> THEN <<>> ELSE Head(parts) \o JoinLines(Tail(parts))

\* for i, version in enumerate(versions_data, start): the heading of the
\* section with its link, then one entry for each of its news items
RenderSections(versions_data, date_string, start) ==
    JoinLines([k \in 1..Len(versions_data) |->
        LET i == start + k - 1
            version == versions_data[k]
            news == NewsOf(version)
        IN  <<[heading |-> TRUE, title |-> version.title,
               url |-> LayoutUrl(date_string, i)]>>
              \o [j \in 1..Len(news) |->
                    [heading |-> FALSE, title |-> news[j].title, url |-> news[j].url]]])

\* ## [title](version_url)  and  - [title](url)
MarkdownLines(entries) ==
    [k \in 1..Len(entries) |->
        [md   |-> IF entries[k].heading THEN "## [](" ELSE "- [](",
         text |-> entries[k].title, link |-> entries[k].url]]

\* h2.version-title > a  and  li.news-item > a.news-link
HtmlElements(entries) ==
    [k \in 1..Len(entries) |->
        [tag  |-> IF entries[k].heading THEN "h2.version-title" ELSE "li.news-item",
         href |-> entries[k].url, text |-> entries[k].title]]

\* the lines of the Markdown index under its title line
generate_markdown_report_FromZero(versions_data, date_string) ==
    <<[md |-> "#", text |-> date_string]>>
    \o MarkdownLines(RenderSections(versions_data, date_string, 0))

generate_markdown_report(versions_data, date_string) ==
    <<[md |-> "#", text |-> date_string]>>
    \o MarkdownLines(RenderSections(versions_data, date_string, 1))

\* the elements of the HTML index under its h1
generate_html_report_SkipsNews(versions_data, date_string) ==
    <<[tag |-> "h1", text |-> date_string]>>
    \o HtmlElements(SelectSeq(RenderSections(versions_data, date_string, 1),
                              LAMBDA entry : entry.heading))

generate_html_report(versions_data, date_string) ==
    <<[tag |-> "h1", text |-> date_string]>>
    \o HtmlElements(RenderSections(versions_data, date_string, 1))

\* crawl, steps 4 to 6: the HTML report is written (an error of the write is
\* not caught anywhere) and the result is marked successful
CrawlReport ==
    /\ cmd = "crawl" /\ pc = "report"
    /\ \E written \in BOOLEAN :
         LET result == The(crawl_result)
             name == result.date_string \o HtmlExt
         IN  IF written
             THEN /\ outputDir' = outputDir \cup {name}
                  /\ html_report' = generate_html_report(all_versions_data,
                                                          result.date_string)
                  /\ crawl_result' = Some([result EXCEPT !.success = TRUE,
                                                         !.versions_data = all_versions_data,
                                                         !.html_path = name])
                  /\ pc' = "convert"
                  /\ UNCHANGED <<exc, exitStatus>>
             ELSE /\ exc' = "OSError in save_to_file"
                  /\ exitStatus' = 1
                  /\ pc' = "crashed"
                  /\ UNCHANGED <<outputDir, crawl_result, html_report>>
    /\ UNCHANGED <<cmd, clock, ret, statusLine>>
    /\ UNCHANGED <<date_arg, only_article, versions, vidx, all_versions_data,
                   news_ok, article_result, net, stages>>
    /\ UNCHANGED <<summVars, convVars>>
    /\ UNCHANGED tokVars
    /\ UNCHANGED artVars
    /\ UNCHANGED runs
    /\ UNCHANGED <<markdown, json_metadata, article_content, md_report>>

\* process_news after crawl_peoples_daily returned: False on a failed crawl,
\* otherwise the Markdown report is written (an error of the write is not
\* caught anywhere) and True is returned
ProcessNews ==
    /\ cmd = "crawl" /\ pc = "convert"
    /\ LET result == The(crawl_result)
       IN  IF ~result.success
           THEN /\ news_ok' = "False"
                /\ pc' = "article"
                /\ UNCHANGED <<outputDir, exc, exitStatus, md_report>>
           ELSE \E written \in BOOLEAN :
                  IF written
                  THEN /\ outputDir' = outputDir \cup {result.date_string \o MdExt}
                       /\ md_report' = generate_markdown_report(result.versions_data,
                                                                 result.date_string)
                       /\ news_ok' = "True"
                       /\ pc' = "article"
                       /\ UNCHANGED <<exc, exitStatus>>
                  ELSE /\ exc' = "OSError in save_file"
                       /\ exitStatus' = 1
                       /\ pc' = "crashed"
                       /\ UNCHANGED <<outputDir, news_ok, md_report>>
    /\ UNCHANGED <<cmd, clock, ret, statusLine>>
    /\ UNCHANGED <<date_arg, only_article, versions, vidx, all_versions_data,
                   crawl_result, article_result, net, stages>>
    /\ UNCHANGED <<summVars, convVars>>
    /\ UNCHANGED tokVars
    /\ UNCHANGED artVars
    /\ UNCHANGED runs
    /\ UNCHANGED <<markdown, json_metadata, article_content, html_report>>

-----------------------------------------------------------------------------
(* crawler/article_fetcher.py: the article stage of the crawl command *)

ReadableSuffix == <<"-", "r", "e", "a", "d", "a", "b", "l", "e">>

\* outcomes of the request for the first page of the edition: a request error,
\* a page without any article link, a page with one
PageOutcomes == {"error", "nolink", "link"}
\* outcomes of the request for the article
ContentOutcomes == {"error", "html"}
\* what save_article_html manages to write
SaveOutcomes == {"none", "original", "both"}

\* int(date[:4]), int(date[4:6]), int(date[6:8]) all succeed
DateTupleParses(date) ==
    /\ IntParses(Slice(date, 0, 4))
    /\ IntParses(Slice(date, 4, 6))
    /\ IntParses(Slice(date, 6, 8))

fetch_and_save_first_article(date_string, page, content, saved) ==
    LET result == [success |-> FALSE, article_url |-> None,
                   original_html_path |-> None, readable_html_path |-> None,
                   date_string |-> date_string]
        withUrl == [result EXCEPT !.article_url = Some("article")]
        original == IF saved \in {"original", "both"}
                    THEN Some(date_string \o ArticleTail(1, 1) \o HtmlExt)
                    ELSE None
        readable == IF saved = "both"
                    THEN Some(date_string \o ArticleTail(1, 1) \o ReadableSuffix \o HtmlExt)
                    ELSE None
    IN  IF page # "link" THEN result
        ELSE IF content # "html" THEN withUrl
        ELSE [withUrl EXCEPT !.original_html_path = original,
                             !.readable_html_path = readable,
                             !.success = ~IsNone(original)]

fetch_first_article(date, now, page, content, saved) ==
    IF ~IsNone(date) /\ The(date) # <<>> /\ ~DateTupleParses(The(date))
    THEN [success |-> FALSE, error |-> "invalid date"]
    ELSE fetch_and_save_first_article(
             IF IsNone(date) \/ The(date) = <<>> THEN Strftime_Ymd(now)
             ELSE Slice(The(date), 0, 8),
             page, content, saved)

\* the requests fetch_first_article issues and the files it leaves
ArticleRequests(r, page, content) ==
    IF "article_url" \notin DOMAIN r THEN <<>>
    ELSE IF page # "link" THEN <<Request(<<"page", 0>>, page # "error")>>
    ELSE <<Request(<<"page", 0>>, TRUE), Request(<<"article", 0>>, content = "html")>>
ArticleFiles(r) ==
    IF "article_url" \notin DOMAIN r THEN {}
    ELSE { The(p) : p \in { r.original_html_path, r.readable_html_path } \ {None} }

\* run.py main: fetch_first_article is called whatever the edition stage gave
ArticleFetch ==
    /\ cmd = "crawl" /\ pc = "article"
    /\ stages' = Append(stages, "article")
    /\ \E now \in (IF IsNone(date_arg) THEN ClockReads(clock) ELSE {clock}),
          page \in PageOutcomes, content \in ContentOutcomes, saved \in SaveOutcomes :
         LET r == fetch_first_article(date_arg, now, page, content, saved)
         IN  /\ clock' = now
             /\ article_result' = Some(r)
             /\ net' = net \o ArticleRequests(r, page, content)
             /\ outputDir' = outputDir \cup ArticleFiles(r)
    /\ pc' = "status"
    /\ UNCHANGED <<cmd, ret, exc, exitStatus, statusLine>>
    /\ UNCHANGED <<date_arg, only_article, versions, vidx, all_versions_data,
                   crawl_result, news_ok>>
    /\ UNCHANGED <<summVars, convVars>>
    /\ UNCHANGED tokVars
    /\ UNCHANGED artVars
    /\ UNCHANGED runs
    /\ UNCHANGED fmtVars

\* run.py main, after fetch_first_article: the message of a successful fetch
\* reads article_result['html_path']; then the final status line and the
\* exit status
MainCrawlStatus ==
    /\ cmd = "crawl" /\ pc = "status"
    /\ LET r == The(article_result)
           success == (news_ok # "False") /\ r.success
       IN  IF r.success /\ "html_path" \notin DOMAIN r
           THEN /\ exc' = "KeyError html_path"
                /\ exitStatus' = 1
                /\ pc' = "crashed"
                /\ UNCHANGED <<ret, statusLine>>
           ELSE /\ statusLine' = IF success THEN "success" ELSE "failure"
                /\ exitStatus' = ExitCode(success)
                /\ ret' = IF success THEN "True" ELSE "False"
                /\ pc' = "exit"
                /\ exc' = exc
    /\ UNCHANGED <<cmd, clock, outputDir>>
    /\ UNCHANGED <<summVars, crawlVars, convVars>>
    /\ UNCHANGED tokVars
    /\ UNCHANGED artVars
    /\ UNCHANGED runs
    /\ UNCHANGED fmtVars

-----------------------------------------------------------------------------
(* The get-article command: article_main.py, crawler/article_main.py *)

\* the methods class ArticleContentFetcher defines
ArticleContentFetcherMethods ==
    { "get_first_article_url", "fetch_article_content", "extract_article_content",
      "save_article_html", "fetch_and_save_first_article" }

\* re.match(r'^\d{8}$', date)
IsEightDigits(date) == Len(date) = 8 /\ \A i \in 1..8 : IsDigit(date[i])

\* process_article -> crawl_article -> ArticleContentCrawler.crawl: a date that
\* is not eight digits gives a failure result; otherwise crawl looks up the
\* method fetch_and_save_article on the fetcher, which the class does not
\* define, and the AttributeError is not caught anywhere
ProcessArticle ==
    /\ cmd = "get-article" /\ pc = "main"
    /\ stages' = Append(stages, "article")
    /\ IF ~IsNone(date_arg) /\ The(date_arg) # <<>> /\ ~IsEightDigits(The(date_arg))
       THEN /\ crawl_result' = Some([success |-> FALSE, date_string |-> The(date_arg)])
            /\ ret' = "False"
            /\ pc' = "returned"
            /\ UNCHANGED <<clock, exc, exitStatus>>
       ELSE /\ "fetch_and_save_article" \notin ArticleContentFetcherMethods
            /\ \E now \in (IF IsNone(date_arg) THEN ClockReads(clock) ELSE {clock}) :
                 clock' = now
            /\ exc' = "AttributeError fetch_and_save_article"
            /\ exitStatus' = 1
            /\ pc' = "crashed"
            /\ UNCHANGED <<crawl_result, ret>>
    /\ UNCHANGED <<cmd, outputDir, statusLine>>
    /\ UNCHANGED <<date_arg, only_article, versions, vidx, all_versions_data,
                   news_ok, article_result, net>>
    /\ UNCHANGED <<summVars, convVars>>
    /\ UNCHANGED tokVars
    /\ UNCHANGED artVars
    /\ UNCHANGED runs
    /\ UNCHANGED fmtVars

\* run.py main, get-article branch: the final status line and the exit status
MainArticleExit ==
    /\ cmd = "get-article" /\ pc = "returned"
    /\ statusLine' = IF ret = "True" THEN "success" ELSE "failure"
    /\ exitStatus' = ExitCode(ret = "True")
    /\ pc' = "exit"
    /\ UNCHANGED <<cmd, clock, outputDir, ret, exc>>
    /\ UNCHANGED <<summVars, crawlVars, convVars>>
    /\ UNCHANGED tokVars
    /\ UNCHANGED artVars
    /\ UNCHANGED runs
    /\ UNCHANGED fmtVars

-----------------------------------------------------------------------------
(* converter/article_converter.py: convert_article on one HTML file *)

Formats == {"markdown", "json", "all"}

\* convert_html_to_markdown: info, content and written tell whether the
\* article info was extracted, the Markdown text is non-empty, the file written
convert_html_to_markdown_KeepsExt(html_file_path, info, content, written) ==
    IF ~info THEN None
    ELSE IF ~content THEN None
    ELSE IF written THEN Some(html_file_path \o MdExt)
    ELSE None
convert_html_to_markdown(html_file_path, info, content, written) ==
    IF ~info THEN None
    ELSE IF ~content THEN None
    ELSE IF written THEN Some(SplitextBase(html_file_path) \o MdExt)
    ELSE None

\* convert_html_to_json: the JSON text is never empty
convert_html_to_json(html_file_path, info, written) ==
    IF ~info THEN None
    ELSE IF written THEN Some(SplitextBase(html_file_path) \o JsonExt)
    ELSE None

\* if result['markdown_path'] or result['json_path']: result['success'] = True
ConvertSuccess(markdown_path, json_path) == ~IsNone(markdown_path) \/ ~IsNone(json_path)

\* convert: the checks of the input path
ConvertStart ==
    /\ cmd = "convert-article" /\ pc = "main"
    /\ convert_result' = Some([success |-> FALSE, markdown_path |-> None,
                               json_path |-> None, summary |-> None])
    /\ pc' = IF IsNone(input_path) \/ The(input_path) \notin outputDir
             THEN "returned" ELSE "markdown"
    /\ UNCHANGED <<cmd, clock, outputDir, ret, exc, exitStatus, statusLine>>
    /\ UNCHANGED <<format_type, input_path>>
    /\ UNCHANGED <<summVars, crawlVars>>
    /\ UNCHANGED tokVars
    /\ UNCHANGED artVars
    /\ UNCHANGED runs
    /\ UNCHANGED fmtVars

ConvertMarkdown ==
    /\ cmd = "convert-article" /\ pc = "markdown"
    /\ IF format_type \in {"markdown", "all"}
       THEN \E info \in BOOLEAN, content \in BOOLEAN, written \in BOOLEAN :
              LET path == convert_html_to_markdown(The(input_path), info, content, written)
              IN  /\ convert_result' =
                        Some([The(convert_result) EXCEPT !.markdown_path = path])
                  /\ outputDir' = IF IsNone(path) THEN outputDir
                                  ELSE outputDir \cup {The(path)}
       ELSE UNCHANGED <<convert_result, outputDir>>
    /\ pc' = "json"
    /\ UNCHANGED <<cmd, clock, ret, exc, exitStatus, statusLine>>
    /\ UNCHANGED <<format_type, input_path>>
    /\ UNCHANGED <<summVars, crawlVars>>
    /\ UNCHANGED tokVars
    /\ UNCHANGED artVars
    /\ UNCHANGED runs
    /\ UNCHANGED fmtVars

ConvertJson ==
    /\ cmd = "convert-article" /\ pc = "json"
    /\ IF format_type \in {"json", "all"}
       THEN \E info \in BOOLEAN, written \in BOOLEAN :
              LET path == convert_html_to_json(The(input_path), info, written)
              IN  /\ convert_result' =
                        Some([The(convert_result) EXCEPT !.json_path = path])
                  /\ outputDir' = IF IsNone(path) THEN outputDir
                                  ELSE outputDir \cup {The(path)}
       ELSE UNCHANGED <<convert_result, outputDir>>
    /\ pc' = "finish"
    /\ UNCHANGED <<cmd, clock, ret, exc, exitStatus, statusLine>>
    /\ UNCHANGED <<format_type, input_path>>
    /\ UNCHANGED <<summVars, crawlVars>>
    /\ UNCHANGED tokVars
    /\ UNCHANGED artVars
    /\ UNCHANGED runs
    /\ UNCHANGED fmtVars

\* convert: the summary and the success flag
ConvertFinish ==
    /\ cmd = "convert-article" /\ pc = "finish"
    /\ \E info \in BOOLEAN :
         LET result == The(convert_result)
         IN  convert_result' =
                 Some([result EXCEPT
                         !.summary = IF info THEN Some("summary") ELSE None,
                         !.success = ConvertSuccess(result.markdown_path, result.json_path)])
    /\ pc' = "returned"
    /\ UNCHANGED <<cmd, clock, outputDir, ret, exc, exitStatus, statusLine>>
    /\ UNCHANGED <<format_type, input_path>>
    /\ UNCHANGED <<summVars, crawlVars>>
    /\ UNCHANGED tokVars
    /\ UNCHANGED artVars
    /\ UNCHANGED runs
    /\ UNCHANGED fmtVars

-----------------------------------------------------------------------------
(* The crawl, get-article and convert flows together *)

\* the HTML files convert_article may be pointed at
ArticleHtmlNames ==
    { Strftime_Ymd(d) \o ArticleTail(1, 1) \o HtmlExt : d \in (StartDay - 1)..StartDay }

InitCrawlCommand ==
    /\ cmd = "crawl" /\ pc = "main"
    /\ outputDir = {}
    /\ InitTok /\ InitArt /\ InitProcess /\ InitSumm /\ InitCrawl /\ InitConv
    /\ date_arg \in DateArgs
    /\ only_article \in BOOLEAN
    /\ format_type = "markdown"
    /\ input_path = None

InitGetArticle ==
    /\ cmd = "get-article" /\ pc = "main"
    /\ outputDir = {}
    /\ InitTok /\ InitArt /\ InitProcess /\ InitSumm /\ InitCrawl /\ InitConv
    /\ date_arg \in DateArgs
    /\ only_article = FALSE
    /\ format_type \in Formats
    /\ input_path = None

InitConvert ==
    /\ cmd = "convert-article" /\ pc = "main"
    /\ outputDir \in SUBSET ArticleHtmlNames
    /\ InitTok /\ InitArt /\ InitProcess /\ InitSumm /\ InitCrawl /\ InitConv
    /\ date_arg = None
    /\ only_article = FALSE
    /\ format_type \in Formats
    /\ input_path \in { Some(f) : f \in ArticleHtmlNames }

\* PeoplesDailyFetcher.get_all_versions: the front page and its section links
GetAllVersionsRoot ==
    /\ cmd = "get-all-versions" /\ pc = "root"
    /\ \E fetched \in BOOLEAN, n \in 0..MaxSections :
         /\ net' = Append(net, Request(<<"root", 0>>, fetched))
         /\ versions' = IF fetched THEN SectionLinks(n) ELSE <<>>
         /\ pc' = IF versions' = <<>> THEN "returned" ELSE "section"
    /\ UNCHANGED <<cmd, clock, outputDir, ret, exc, exitStatus, statusLine>>
    /\ UNCHANGED <<date_arg, only_article, vidx, all_versions_data, crawl_result,
                   news_ok, article_result, stages>>
    /\ UNCHANGED <<summVars, convVars, tokVars, artVars>>
    /\ UNCHANGED runs
    /\ UNCHANGED fmtVars

\* get_all_versions, one pass of its loop: the request for the section page,
\* whose error is caught, then the delay
GetAllVersionsSection ==
    /\ cmd = "get-all-versions" /\ pc = "section" /\ vidx < Len(versions)
    /\ \E fetched \in BOOLEAN :
         LET version == versions[vidx + 1]
         IN  /\ net' = net \o <<Request(<<"section", version>>, fetched), Sleep>>
             /\ all_versions_data' =
                    IF fetched
                    THEN Append(all_versions_data, [version_info |-> version])
                    ELSE all_versions_data
             /\ vidx' = vidx + 1
             /\ pc' = IF vidx' >= Len(versions) THEN "returned" ELSE "section"
    /\ UNCHANGED <<cmd, clock, outputDir, ret, exc, exitStatus, statusLine>>
    /\ UNCHANGED <<date_arg, only_article, versions, crawl_result, news_ok,
                   article_result, stages>>
    /\ UNCHANGED <<summVars, convVars, tokVars, artVars>>
    /\ UNCHANGED runs
    /\ UNCHANGED fmtVars

InitGetAllVersions ==
    /\ cmd = "get-all-versions" /\ pc = "root"
    /\ outputDir = {}
    /\ InitTok /\ InitArt /\ InitProcess /\ InitSumm /\ InitCrawl /\ InitConv
    /\ InitNoArgs

InitPipeline == InitCrawlCommand \/ InitGetArticle \/ InitConvert \/ InitGetAllVersions

NextPipeline ==
    \/ MainCrawl
    \/ CrawlRoot
    \/ CrawlSection
    \/ CrawlReport
    \/ ProcessNews
    \/ ArticleFetch
    \/ MainCrawlStatus
    \/ ProcessArticle
    \/ MainArticleExit
    \/ ConvertStart
    \/ ConvertMarkdown
    \/ ConvertJson
    \/ ConvertFinish
    \/ GetAllVersionsRoot
    \/ GetAllVersionsSection

SpecPipeline == InitPipeline /\ [][NextPipeline]_vars

-----------------------------------------------------------------------------
(* Properties of the crawl command *)

\* crawl has returned its result to process_news
CrawlReturned ==
    /\ cmd = "crawl" /\ ~IsNone(crawl_result)
    /\ \/ pc \in {"convert", "article", "status", "exit"}
       \/ pc = "crashed" /\ exc # "OSError in save_to_file"

\* the requests for section pages, in the order they were issued
SectionRequests == SelectSeq(net, LAMBDA e : e.op = "get" /\ e.target[1] = "section")
IdsOf(requests) == [i \in 1..Len(requests) |-> requests[i].target[2]]
FetchedSections == IdsOf(SectionRequests)
SucceededSections == IdsOf(SelectSeq(SectionRequests, LAMBDA e : e.ok))
TitlesOf(versions_data) == [i \in 1..Len(versions_data) |-> versions_data[i].title]

\* C3: while the sections are crawled the collected sections are the
\* successfully fetched ones in document order; once crawl has returned on an
\* edition with section links, every section link was requested, in document
\* order, whatever the earlier requests gave; the reported sections are the
\* successfully fetched ones in document order; and the result is a success
\* when at least one section was fetched.
C3_FailedSectionSkipped ==
    /\ (cmd = "crawl" /\ pc \in {"section", "report"}) =>
           /\ TitlesOf(all_versions_data) = SucceededSections
           /\ FetchedSections = SubSeq(versions, 1, vidx)
    /\ (CrawlReturned /\ versions # <<>>) =>
           /\ FetchedSections = versions
           /\ TitlesOf(The(crawl_result).versions_data) = SucceededSections
           /\ SucceededSections # <<>> => The(crawl_result).success

\* the first section failed, the second was still fetched and is the only one
\* reported by a successful crawl
C3_Witness ==
    /\ CrawlReturned /\ Len(versions) = 2
    /\ ~SectionRequests[1].ok /\ SectionRequests[2].ok
    /\ The(crawl_result).success
    /\ TitlesOf(The(crawl_result).versions_data) = <<versions[2]>>

\* C4: once crawl has returned on an edition whose section links were found
\* and whose section requests all failed, crawl reports failure and
\* process_news does not return True.
C4_AllSectionsFailedIsFailure ==
    (CrawlReturned /\ versions # <<>> /\ SucceededSections = <<>>) =>
        /\ ~The(crawl_result).success
        /\ news_ok # "True"

\* the command has ended: main returned or an exception ended the process
Ended == pc \in {"exit", "crashed"}

\* C5 as stated: when process_news returned False the article stage is not
\* executed in that run, and the command ends with a nonzero status.
C5_EditionFailureHaltsArticleStage ==
    (cmd = "crawl" /\ news_ok = "False") =>
        /\ \A i \in 1..Len(stages) : stages[i] # "article"
        /\ Ended => exitStatus # 0

\* C5, amended: when process_news returned False the command does not end
\* before fetch_first_article was executed, and it never ends with status 0:
\* it ends with status 1.
C5_ArticleStageRunsAfterEditionFailure ==
    (cmd = "crawl" /\ news_ok = "False") =>
        /\ pc \in {"article", "status", "exit", "crashed"}
        /\ pc # "article" => stages = <<"edition", "article">>
        /\ exitStatus # 0
        /\ Ended => exitStatus = 1

\* the edition stage failed, the article stage ran and failed too, and the
\* command ended with the failure status line and status 1
C5_Witness ==
    /\ cmd = "crawl" /\ news_ok = "False" /\ pc = "exit"
    /\ stages = <<"edition", "article">>
    /\ ~The(article_result).success
    /\ statusLine = "failure" /\ exitStatus = 1

\* every executed stage of the crawl command succeeded
ExecutedStagesSucceeded ==
    /\ (\E i \in 1..Len(stages) : stages[i] = "edition") => news_ok = "True"
    /\ ~IsNone(article_result) /\ The(article_result).success

\* C7: every run of the crawl command that has ended has printed the final
\* status line, and its exit status is 0 when every executed stage succeeded
\* and 1 otherwise.
C7_EndsWithStatusLine ==
    (cmd = "crawl" /\ Ended) =>
        /\ statusLine \in {"success", "failure"}
        /\ exitStatus = IF ExecutedStagesSucceeded THEN 0 ELSE 1

-----------------------------------------------------------------------------
(* Properties of the get-article command and of the converter *)

\* C6: in the get-article flow no exception escapes, crawl_article hands back
\* a result with a success flag, and process_article ends by returning True
\* or False.
C6_NoExceptionEscapes ==
    cmd = "get-article" =>
        /\ exc = "none"
        /\ pc # "main" =>
               /\ ~IsNone(crawl_result)
               /\ "success" \in DOMAIN The(crawl_result)
               /\ ret \in {"True", "False"}

\* C8: a conversion of one file with format `all` reports success only if
\* both the Markdown file and the JSON file were written.
C8_AllNeedsEveryOutput ==
    (cmd = "convert-article" /\ pc = "returned" /\ format_type = "all") =>
        (The(convert_result).success =>
             /\ ~IsNone(The(convert_result).markdown_path)
             /\ ~IsNone(The(convert_result).json_path))

-----------------------------------------------------------------------------
(* Properties of the placeholder summary without a date in the body *)

\* the day d of April 2025 written yyyy-mm-dd
IsoDay(d) == <<"2", "0", "2", "5", "-", "0", "4", "-">> \o <<DigitOf(d \div 10), DigitOf(d)>>

\* C11 as stated: in mock mode, when the body holds no date of the shape, the
\* time field of the placeholder summary is today's date, whatever the
\* frontmatter holds.
C11_MockTimeIsToday ==
    (cmd = "mock-summarize" /\ pc = "returned"
        /\ DateOccurrences(The(content_data).content) = {}) =>
        The(summary_data).summary.text.time = IsoDay(clock)

\* C11, amended: in mock mode, when the body holds no date of the shape, the
\* time field is the value of the frontmatter's date key when the frontmatter
\* has one, and today's date (yyyy-mm-dd) only when it has none.
C11_MockTimeIsMetadataDateElseToday ==
    (cmd = "mock-summarize" /\ pc = "returned"
        /\ DateOccurrences(The(content_data).content) = {}) =>
        LET metadata == The(content_data).metadata
        IN  The(summary_data).summary.text.time =
                IF "date" \in DOMAIN metadata THEN metadata.date ELSE IsoDay(clock)

\* a body without a date, a frontmatter date that is not today: the time field
\* is the frontmatter's date
C11_Witness ==
    /\ cmd = "mock-summarize" /\ pc = "returned"
    /\ The(content_data).content # <<>>
    /\ DateOccurrences(The(content_data).content) = {}
    /\ "date" \in DOMAIN The(content_data).metadata
    /\ The(summary_data).summary.text.time = The(content_data).metadata.date
    /\ The(summary_data).summary.text.time # IsoDay(clock)

-----------------------------------------------------------------------------
(* Properties of a failed endpoint call *)

\* the names of the summary files
IsSummaryName(f) == EndsWith(f, AiSuffix \o MdExt)

\* C12: the step in which a summarizer not in mock mode gets no summary has
\* sent exactly one request, makes run_summarize return False and leaves the
\* directory as it was; from then on no further request is sent, the return
\* value stays False and no summary file is created or written.
C12_EndpointFailureFailsRun ==
    [][ /\ (cmd = "ai-summarize" /\ pc = "summarize"
               /\ ~The(summarizer).use_mock /\ IsNone(summary_data')) =>
               /\ apiCalls' = 1
               /\ pc' = "returned" /\ ret' = "False"
               /\ outputDir' = outputDir
        /\ (cmd = "ai-summarize" /\ Len(steps) >= 4 /\ IsNone(summary_data)) =>
               /\ apiCalls' = apiCalls
               /\ ret' = "False"
               /\ outputDir' = outputDir
               /\ IsNone(summary_file')
               /\ steps' = steps
      ]_vars

\* the only request failed: the run ended with False after the summarize step
\* and the directory holds no summary file
C12_Witness ==
    /\ cmd = "ai-summarize" /\ pc = "exit"
    /\ steps = <<"find", "select", "extract", "summarize">>
    /\ ~The(summarizer).use_mock /\ apiCalls = 1
    /\ IsNone(summary_data) /\ ret = "False" /\ exitStatus = 1
    /\ \A f \in outputDir : ~IsSummaryName(f)

-----------------------------------------------------------------------------
(* TokenCounter.estimate_input_tokens on lists of chat messages *)

RECURSIVE TextsOf(_)
TextsOf(n) ==
    IF n = 0 THEN { <<>> }
    ELSE LET shorter == TextsOf(n - 1)
         IN  shorter \cup { t \o <<ch>> : t \in shorter, ch \in {"c", "a", " "} }
TokenTexts == TextsOf(MaxTextLen)

\* a few contents for the other messages of a list
OtherTexts == { <<>>, <<"c", "c", " ">>, <<"a", "a", "a", "a", "a", "a">> }

Message(role, text) == [role |-> role, content |-> text]
\* lists of messages; a message may lack the content key
MessageLists ==
    { <<>> }
    \cup { <<Message("user", t)>> : t \in TokenTexts }
    \cup { <<Message("system", s), Message("user", t)>> : s \in OtherTexts, t \in TokenTexts }
    \cup { <<[role |-> "system"], Message("user", t), Message("user", s)>> :
             s \in OtherTexts, t \in TokenTexts }

EstimateInputTokens ==
    /\ cmd = "estimate-tokens" /\ pc = "estimate"
    /\ token_counts' = Some([i \in 1..Len(messages) |->
                                count_tokens(Get(messages[i], "content", <<>>))])
    /\ input_tokens' = Some(estimate_input_tokens(messages))
    /\ pc' = "returned"
    /\ UNCHANGED <<cmd, clock, outputDir, ret, exc, exitStatus, statusLine, messages,
                   saved_tokens>>
    /\ UNCHANGED <<summVars, crawlVars, convVars, artVars>>
    /\ UNCHANGED runs
    /\ UNCHANGED fmtVars

InitTokens ==
    /\ cmd = "estimate-tokens" /\ pc = "estimate"
    /\ outputDir = {}
    /\ InitArt /\ InitProcess /\ InitSumm /\ InitCrawl /\ InitConv /\ InitNoArgs
    /\ messages \in MessageLists
    /\ token_counts = None
    /\ input_tokens = None
    /\ saved_tokens = None

NextTokens == EstimateInputTokens

SpecTokens == InitTokens /\ [][NextTokens]_vars

\* the number of characters of text with a CJK name
NumChinese(text) == Cardinality({ k \in 1..Len(text) : text[k] \in {"c", "Y", "M", "D"} })

\* text without its leading and trailing whitespace
Stripped(text) ==
    CHOOSE t \in { SubSeq(text, i, j) : i \in 1..(Len(text) + 1), j \in 0..Len(text) } :
        \E i \in 1..(Len(text) + 1), j \in 0..Len(text) :
            /\ t = SubSeq(text, i, j)
            /\ \A k \in 1..Len(text) : (k < i \/ k > j) => text[k] = " "
            /\ (i <= j) => (text[i] # " " /\ text[j] # " ")
            /\ (i > j) => (i = 1 /\ j = 0)

ContentOf(i) == IF "content" \in DOMAIN messages[i] THEN messages[i].content ELSE <<>>

RECURSIVE SumWithOverhead(_, _)
SumWithOverhead(counts, n) ==
    IF n = 0 THEN 0 ELSE counts[n] + 4 + SumWithOverhead(counts, n - 1)

\* C14 as stated: for every list of messages, estimate_input_tokens returns the
\* sum over the messages of (count_tokens(content) + 4), plus 3 once.
C14_InputTokensOfEveryList ==
    (cmd = "estimate-tokens" /\ pc = "returned") =>
        The(input_tokens) = SumWithOverhead(The(token_counts), Len(messages)) + 3

\* C14, amended: for every non-empty list of messages, estimate_input_tokens
\* returns the sum over the messages of (count_tokens(content) + 4), plus 3
\* once; for the empty list it returns 0.
C14_InputTokensOfNonEmptyList ==
    (cmd = "estimate-tokens" /\ pc = "returned") =>
        /\ messages # <<>> =>
             The(input_tokens) = SumWithOverhead(The(token_counts), Len(messages)) + 3
        /\ messages = <<>> => The(input_tokens) = 0

\* three messages, one of them without content, were estimated at
\* 0 + 3 + 2 tokens of content, three overheads of 4 and the constant 3
C14_Witness ==
    /\ cmd = "estimate-tokens" /\ pc = "returned"
    /\ Len(messages) = 3
    /\ "content" \notin DOMAIN messages[1]
    /\ The(token_counts) = <<0, 3, 2>>
    /\ The(input_tokens) = 20


-----------------------------------------------------------------------------
(* Token counts and cost of a summary *)

\* the run is in non-mock mode and the endpoint has returned a summary
ApiSummaryObtained ==
    /\ cmd = "ai-summarize"
    /\ ~IsNone(summary_data)
    /\ The(summary_data).summary.kind = "api"

\* the summary file of the run has been written
SummaryPersisted == ApiSummaryObtained /\ ~IsNone(summary_file) /\ ~IsNone(saved_tokens)

\* C15 as stated: for a non-mock call the recorded output estimate is the
\* number of characters the endpoint returned, and the cost in the result and
\* in the persisted file is inputTokens/1000 x 0.0005 + outputTokens/1000 x
\* 0.0025 computed with that output estimate (costs in 10^-7 dollar; the file
\* holds the cost printed with six decimals).
C15_CostOfReturnedCharacters ==
    ApiSummaryObtained =>
        LET tokens == The(summary_data).tokens
        IN  /\ tokens.output = Len(The(summary_data).summary.text)
            /\ tokens.estimated_cost = 5 * tokens.input + 25 * tokens.output
            /\ SummaryPersisted =>
                 LET shown == 10 * The(saved_tokens).estimated_cost
                 IN  /\ shown - 5 <= 5 * tokens.input + 25 * tokens.output
                     /\ 5 * tokens.input + 25 * tokens.output <= shown + 5

\* C15, amended: for a non-mock call the recorded output count is the number
\* of characters the endpoint returned, and the cost in the result is
\* inputTokens/1000 x 0.0005 + 200/1000 x 0.0025, the output estimate of the
\* cost being the fixed 200 tokens assumed before the call; the persisted file
\* holds the input tokens, the output characters and that cost rounded to six
\* decimals.
C15_CostOfFixedOutputEstimate ==
    ApiSummaryObtained =>
        LET tokens == The(summary_data).tokens
        IN  /\ tokens.output = Len(The(summary_data).summary.text)
            /\ tokens.estimated_cost = 5 * tokens.input + 25 * 200
            /\ SummaryPersisted =>
                 LET shown == 10 * The(saved_tokens).estimated_cost
                 IN  /\ The(saved_tokens).input_tokens = tokens.input
                     /\ The(saved_tokens).output_chars = tokens.output
                     /\ shown - 5 <= tokens.estimated_cost
                     /\ tokens.estimated_cost <= shown + 5

\* a non-mock run persisted a summary of 3 returned characters for a one
\* character article: 123 input tokens, cost 0.0005615 dollar printed as
\* 0.000562
C15_Witness ==
    /\ SummaryPersisted
    /\ pc = "exit"
    /\ The(summary_data).summary.text = <<"s", "s", "s">>
    /\ The(saved_tokens) = [input_tokens |-> 123, output_chars |-> 3, estimated_cost |-> 562]


-----------------------------------------------------------------------------
(* ArticleParser.parse_article and ArticleFormatter.extract_article_info *)

\* the sentinels of a missing title and of a missing author
NoTitle == <<"no-title">>
Unknown == <<"unknown">>

\* what a selector yields: no element (None) or the element's text after
\* get_text(strip=True), which may be empty
ElementTexts(texts) == { None } \cup { Some(t) : t \in texts }

\* the first selector of the chain whose element has text, or 0
RECURSIVE FirstWithText(_, _)
FirstWithText(elements, i) ==
    IF i > Len(elements) THEN 0
    ELSE IF ~IsNone(elements[i]) /\ The(elements[i]) # <<>> THEN i
    ELSE FirstWithText(elements, i + 1)

\* the title loop of parse_article: title_element is the element of the
\* selector the loop stopped at, or that of the last selector
ParseTitle(title_elements) ==
    LET hit == FirstWithText(title_elements, 1)
        title_element == IF hit > 0 THEN title_elements[hit]
                         ELSE title_elements[Len(title_elements)]
    IN  IF ~IsNone(title_element) THEN The(title_element) ELSE NoTitle

\* the author of parse_article: the selector chain, then the meta tag
ParseAuthor(author_elements, author_meta) ==
    LET hit == FirstWithText(author_elements, 1)
        author == IF hit > 0 THEN The(author_elements[hit]) ELSE <<>>
    IN  IF author # <<>> THEN author
        ELSE IF ~IsNone(author_meta) /\ The(author_meta) # <<>> THEN The(author_meta)
        ELSE author

\* ---- the article body (lines 123-147) ----
\* What the extraction sees of a document: for each selector of its list
\* what select_one returns ("none": no element, "empty": an element without
\* text, "text": an element with text), and the <p> elements in document
\* order ("text": has text, "empty": has none, "chrome": has text and sits
\* under a div of class header or footer).
MaxParagraphs == 4

ParagraphKinds == {"text", "empty", "chrome"}

\* the element of the first selector, in list order, whose match is one of
\* those the loop accepts
FirstSelected(matches, accepted) ==
    LET hits == { k \in DOMAIN matches : matches[k] \in accepted }
    IN  IF hits = {} THEN None
        ELSE LET k == CHOOSE i \in hits : \A j \in hits : i <= j
             IN  Some([kind |-> "element", selector |-> k, element |-> matches[k]])

\* if paragraphs: the wrapper with every <p> that has text and no
\* header/footer parent
ParserFallback(paragraphs) ==
    IF paragraphs # <<>>
    THEN Some([kind |-> "wrapper",
               paragraphs |-> SelectSeq(paragraphs, LAMBDA p : p = "text")])
    ELSE None

\* content of parse_article: None stands for the empty string
ParseContent(matches, paragraphs) ==
    LET selected == FirstSelected(matches, {"text"})
    IN  IF ~IsNone(selected) THEN selected ELSE ParserFallback(paragraphs)

parse_article(doc) ==
    IF doc.empty THEN None
    ELSE Some([title |-> ParseTitle(doc.title_elements),
               author |-> ParseAuthor(doc.author_elements, doc.author_meta),
               content |-> ParseContent(doc.matches, doc.paragraphs)])

\* a span of the .meta block: a label and the characters after it
AuthorLabel == "author:"
DateLabel == "date:"
\* text.replace(label, "").strip()
WithoutLabel(text, label) == Strip(SelectSeq(text, LAMBDA ch : ch # label))
Contains(text, label) == \E k \in 1..Len(text) : text[k] = label

\* the loop over the .meta spans: a later span overwrites an earlier one
RECURSIVE MetaAuthor(_, _)
MetaAuthor(spans, author) ==
    IF spans = <<>> THEN author
    ELSE MetaAuthor(Tail(spans),
                    IF Contains(Head(spans), AuthorLabel)
                    THEN WithoutLabel(Head(spans), AuthorLabel)
                    ELSE author)

extract_article_info(doc) ==
    IF ~doc.exists THEN None
    ELSE Some([title |-> IF ~IsNone(doc.title_elem) THEN The(doc.title_elem) ELSE NoTitle,
               author |-> MetaAuthor(doc.meta_spans, Unknown)])

\* the documents handed to parse_article: "div.article h1" and
\* "div.article-box h1" select an h1, so "h1" selects one too
TitleTexts == { <<>>, <<"T">> }
AuthorTexts == { <<>>, <<"A">> }
TitleChains ==
    { c \in [1..5 -> ElementTexts(TitleTexts)] :
        (~IsNone(c[1]) \/ ~IsNone(c[3])) => ~IsNone(c[2]) }
ParserDocs ==
    { [empty |-> TRUE, title_elements |-> [i \in 1..5 |-> None],
       author_elements |-> [i \in 1..3 |-> None], author_meta |-> None,
       matches |-> [i \in 1..4 |-> "none"], paragraphs |-> <<>>] }
    \cup { [empty |-> FALSE, title_elements |-> t, author_elements |-> a, author_meta |-> m,
            matches |-> [i \in 1..4 |-> "none"], paragraphs |-> <<>>] :
             t \in TitleChains,
             a \in [1..3 -> ElementTexts(AuthorTexts)],
             m \in ElementTexts(AuthorTexts) }

\* the readable HTML files handed to extract_article_info
MetaSpans ==
    { <<AuthorLabel>>, <<AuthorLabel, " ", "A">>, <<AuthorLabel, " ">>,
      <<DateLabel, " ", "2">>, <<"x">> }
FormatterDocs ==
    { [exists |-> FALSE, title_elem |-> None, meta_spans |-> <<>>] }
    \cup { [exists |-> TRUE, title_elem |-> t, meta_spans |-> m] :
             t \in ElementTexts(TitleTexts),
             m \in { <<>> } \cup { <<x>> : x \in MetaSpans }
                   \cup { <<x, y>> : x \in MetaSpans, y \in MetaSpans } }

ParseArticle ==
    /\ cmd = "parse-article" /\ pc = "parse"
    /\ article_info' = parse_article(The(html_doc))
    /\ pc' = "returned"
    /\ UNCHANGED <<cmd, clock, outputDir, ret, exc, exitStatus, statusLine, html_doc>>
    /\ UNCHANGED <<summVars, crawlVars, convVars, tokVars>>
    /\ UNCHANGED runs
    /\ UNCHANGED fmtVars

ExtractArticleInfo ==
    /\ cmd = "extract-article-info" /\ pc = "extract"
    /\ article_info' = extract_article_info(The(html_doc))
    /\ pc' = "returned"
    /\ UNCHANGED <<cmd, clock, outputDir, ret, exc, exitStatus, statusLine, html_doc>>
    /\ UNCHANGED <<summVars, crawlVars, convVars, tokVars>>
    /\ UNCHANGED runs
    /\ UNCHANGED fmtVars

InitArticleInfo ==
    /\ \/ cmd = "parse-article" /\ pc = "parse"
          /\ html_doc \in { Some(d) : d \in ParserDocs }
       \/ cmd = "extract-article-info" /\ pc = "extract"
          /\ html_doc \in { Some(d) : d \in FormatterDocs }
    /\ article_info = None
    /\ outputDir = {}
    /\ InitTok /\ InitProcess /\ InitSumm /\ InitCrawl /\ InitConv /\ InitNoArgs

NextArticleInfo == ParseArticle \/ ExtractArticleInfo

SpecArticleInfo == InitArticleInfo /\ [][NextArticleInfo]_vars

\* a record was produced by parse_article or by extract_article_info
RecordProduced ==
    /\ cmd \in {"parse-article", "extract-article-info"}
    /\ pc = "returned"
    /\ ~IsNone(article_info)

\* C16: every record produced by parse_article and by extract_article_info has
\* a non-empty title.
C16_TitleNeverEmpty == RecordProduced => The(article_info).title # <<>>

\* C17: every record produced by parse_article and by extract_article_info has
\* a non-empty author.
C17_AuthorNeverEmpty == RecordProduced => The(article_info).author # <<>>


-----------------------------------------------------------------------------
(* Pacing of the section requests *)

IsSectionRequest(e) == e.op = "get" /\ e.target[1] = "section"

\* C18: in an edition crawl (crawl, and get_all_versions of the fetcher) a
\* delay lies between every two section requests, whether or not the earlier
\* of them succeeded.
C18_DelayBetweenSectionRequests ==
    (cmd \in {"crawl", "get-all-versions"}) =>
        \A i \in 1..Len(net), j \in 1..Len(net) :
            (i < j /\ IsSectionRequest(net[i]) /\ IsSectionRequest(net[j])) =>
                \E k \in (i + 1)..(j - 1) : net[k] = Sleep

\* crawl requested two sections with a delay between them although the
\* request for the first had failed and its section was skipped
C18_Witness ==
    /\ cmd = "crawl" /\ pc = "exit"
    /\ Len(versions) = 2
    /\ \E i \in 1..(Len(net) - 2) :
         /\ net[i] = Request(<<"section", versions[1]>>, FALSE)
         /\ net[i + 1] = Sleep
         /\ net[i + 2] = Request(<<"section", versions[2]>>, TRUE)
    /\ TitlesOf(The(crawl_result).versions_data) = <<versions[2]>>


-----------------------------------------------------------------------------
(* Commands run one after another on the same output directory *)

\* which report files the edition stage of the current command has written
EditionOutcome ==
    [html |-> ~IsNone(crawl_result) /\ The(crawl_result).html_path # <<>>,
     md |-> news_ok = "True"]

\* what a finished command leaves behind for the commands run after it
RunRecord ==
    [cmd |-> cmd, date_arg |-> date_arg, only_article |-> only_article,
     dir |-> outputDir, edition |-> EditionOutcome,
     article_result |-> article_result,
     input_path |-> input_path, convert_result |-> convert_result]

\* a new process starts: nothing of the finished one is left but the files
StartProcess(command, entry) ==
    /\ runs' = Append(runs, RunRecord)
    /\ cmd' = command /\ pc' = entry
    /\ ret' = "none" /\ exc' = "none" /\ exitStatus' = -1 /\ statusLine' = "none"
    /\ clock' \in ClockReads(clock)
    /\ versions' = <<>> /\ vidx' = 0 /\ all_versions_data' = <<>>
    /\ crawl_result' = None /\ news_ok' = "none" /\ article_result' = None
    /\ net' = <<>> /\ stages' = <<>>
    /\ convert_result' = None
    /\ UNCHANGED <<outputDir, summVars, tokVars, artVars, fmtVars>>

\* the converter is run on an HTML file the crawl command left
RunConvertArticle ==
    /\ cmd = "crawl" /\ Ended /\ runs = <<>>
    /\ StartProcess("convert-article", "main")
    /\ \E f \in { g \in outputDir : EndsWith(g, HtmlExt) }, fmt \in Formats :
         /\ input_path' = Some(f)
         /\ format_type' = fmt
    /\ date_arg' = None /\ only_article' = FALSE

\* run.py ai-summarize is run after the converter
RunAiSummarize ==
    /\ cmd = "convert-article" /\ pc = "returned" /\ Len(runs) = 1
    /\ StartProcess("ai-summarize", "find")
    /\ input_path' = None /\ format_type' = "markdown"
    /\ date_arg' = None /\ only_article' = FALSE

\* run.py crawl --only-article, then the converter, then run.py ai-summarize
InitChain == InitCrawlCommand /\ only_article

NextChain ==
    \/ MainCrawl
    \/ ArticleFetch
    \/ MainCrawlStatus
    \/ RunConvertArticle
    \/ ConvertStart
    \/ ConvertMarkdown
    \/ ConvertJson
    \/ ConvertFinish
    \/ RunAiSummarize
    \/ SmFind
    \/ SmSelect
    \/ SmExtract
    \/ SmConstruct
    \/ SmSummarize
    \/ SmSave
    \/ MainSummarizeExit

SpecChain == InitChain /\ [][NextChain]_vars

\* the name of the first article of the first section of date D
ArticleName(D, ext) == D \o <<"-", "0", "1", "0", "1">> \o ext

\* the article stage of a crawl saved the article: its result
SavedArticle(result) ==
    /\ ~IsNone(result)
    /\ "original_html_path" \in DOMAIN The(result)
    /\ ~IsNone(The(result).original_html_path)

\* the converter was run on the article the crawl before it had saved, and
\* wrote its Markdown file
ConvertedSavedArticle ==
    /\ Len(runs) >= 2
    /\ runs[1].cmd = "crawl" /\ SavedArticle(runs[1].article_result)
    /\ runs[2].cmd = "convert-article"
    /\ runs[2].input_path = The(runs[1].article_result).original_html_path
    /\ ~IsNone(The(runs[2].convert_result).markdown_path)

\* C19: the article fetched for date D is saved as D-0101.html; the files the
\* converter writes for it are D-0101.md and D-0101.json; and when
\* find_matching_files then scans date D in the same directory, the Markdown
\* file the converter wrote is among the files it returns.
C19_NamesPreservedForDiscovery ==
    /\ (cmd = "crawl" /\ SavedArticle(article_result)) =>
         LET r == The(article_result)
         IN  /\ The(r.original_html_path) = ArticleName(r.date_string, HtmlExt)
             /\ The(r.original_html_path) \in outputDir
             /\ (~IsNone(date_arg) /\ IsEightDigits(The(date_arg))) =>
                    r.date_string = The(date_arg)
    /\ (cmd = "convert-article" /\ ~IsNone(convert_result)) =>
         \A d \in 1..LastDay :
            input_path = Some(ArticleName(Strftime_Ymd(d), HtmlExt)) =>
                LET result == The(convert_result)
                IN  /\ ~IsNone(result.markdown_path) =>
                         /\ result.markdown_path = Some(ArticleName(Strftime_Ymd(d), MdExt))
                         /\ The(result.markdown_path) \in outputDir
                    /\ ~IsNone(result.json_path) =>
                         /\ result.json_path = Some(ArticleName(Strftime_Ymd(d), JsonExt))
                         /\ The(result.json_path) \in outputDir
    /\ (cmd = "ai-summarize" /\ steps # <<>> /\ ConvertedSavedArticle) =>
         LET D == The(runs[1].article_result).date_string
         IN  (\E i \in 1..Len(scanned) : scanned[i] = D) =>
               The(The(runs[2].convert_result).markdown_path) \in matching_files

\* the article of an explicitly given date was saved, converted to Markdown,
\* and found by ai-summarize, run on the day after that date
C19_Witness ==
    /\ cmd = "ai-summarize" /\ steps = <<"find">> /\ ConvertedSavedArticle
    /\ runs[1].date_arg = Some(Strftime_Ymd(StartDay - 1))
    /\ matching_files = { ArticleName(Strftime_Ymd(StartDay - 1), MdExt) }
    /\ scanned = <<Strftime_Ymd(StartDay), Strftime_Ymd(StartDay - 1)>>


-----------------------------------------------------------------------------
(* The crawl command run twice *)

\* run.py crawl is run a second time with the same arguments
RunCrawlAgain ==
    /\ cmd = "crawl" /\ Ended /\ runs = <<>>
    /\ StartProcess("crawl", "main")
    /\ UNCHANGED <<date_arg, only_article, format_type, input_path>>

InitRerun == InitCrawlCommand

NextRerun ==
    \/ MainCrawl
    \/ CrawlRoot
    \/ CrawlSection
    \/ CrawlReport
    \/ ProcessNews
    \/ ArticleFetch
    \/ MainCrawlStatus
    \/ RunCrawlAgain

SpecRerun == InitRerun /\ [][NextRerun]_vars

\* which article files the article stage has written
ArticleOutcome(result) ==
    IF IsNone(result) \/ "original_html_path" \notin DOMAIN The(result)
    THEN [original |-> FALSE, readable |-> FALSE]
    ELSE [original |-> ~IsNone(The(result).original_html_path),
          readable |-> ~IsNone(The(result).readable_html_path)]

\* a date of eight digits
IsDate(D) == Len(D) = 8 /\ \A i \in 1..8 : D[i] \in {"0", "1", "2", "3", "4", "5", "6", "7", "8", "9"}

\* the names of the files a crawl of date D writes, by the stage that writes them
EditionHtml(D) == D \o <<".", "h", "t", "m", "l">>
EditionMd(D) == D \o <<".", "m", "d">>
ArticleHtml(D) == D \o <<"-", "0", "1", "0", "1", ".", "h", "t", "m", "l">>
ArticleReadableHtml(D) ==
    D \o <<"-", "0", "1", "0", "1", "-", "r", "e", "a", "d", "a", "b", "l", "e",
           ".", "h", "t", "m", "l">>

\* the files a run with the given outcomes has written for date D
NamesWritten(D, edition, article) ==
    (IF edition.html THEN {EditionHtml(D)} ELSE {})
    \cup (IF edition.md THEN {EditionMd(D)} ELSE {})
    \cup (IF article.original THEN {ArticleHtml(D)} ELSE {})
    \cup (IF article.readable THEN {ArticleReadableHtml(D)} ELSE {})

\* C20: for a date D of eight digits given explicitly, the files a crawl run
\* writes are D.html, D.md, D-0101.html (and D-0101-readable.html), whatever
\* the clock reads and whatever was fetched; a second run with the same
\* arguments writes files of the same names, and when it had the same outcomes
\* the directory after it holds the same names as after the first run.
C20_NamingIdempotent ==
    (cmd = "crawl" /\ ~IsNone(date_arg) /\ IsDate(The(date_arg))) =>
        LET D == The(date_arg)
            written == NamesWritten(D, EditionOutcome, ArticleOutcome(article_result))
        IN  /\ runs = <<>> => outputDir = written
            /\ runs # <<>> =>
                 /\ runs[1].dir =
                      NamesWritten(D, runs[1].edition, ArticleOutcome(runs[1].article_result))
                 /\ outputDir = runs[1].dir \cup written
                 /\ (Ended /\ EditionOutcome = runs[1].edition
                       /\ ArticleOutcome(article_result)
                            = ArticleOutcome(runs[1].article_result)) =>
                        outputDir = runs[1].dir

\* the second run of crawl for an explicit date, on a later day than the
\* first, ended having written all four files again: the directory holds the
\* same four names as after the first run
C20_Witness ==
    /\ cmd = "crawl" /\ Ended /\ Len(runs) = 1
    /\ date_arg = Some(Strftime_Ymd(StartDay - 1))
    /\ clock > StartDay
    /\ EditionOutcome = [html |-> TRUE, md |-> TRUE]
    /\ ArticleOutcome(article_result) = [original |-> TRUE, readable |-> TRUE]
    /\ Cardinality(runs[1].dir) = 4
    /\ outputDir = runs[1].dir

\* ======================================================================
\* ArticleFormatter: generate_json_metadata, generate_markdown_article
\* (converter/article_formatter.py), and the front matter parser of
\* FileProcessor.extract_content (summarize/file_processor.py).
\*
\* Text is a sequence of characters.  A lower-case word such as "title"
\* stands for that ASCII word, "c" for one CJK character, NL for "\n".
\* The body of a record (article_info['content'], the serialized .content
\* element) is the sequence of its nodes in document order, each with its
\* tag and its stripped text.
\* ======================================================================

MaxNodes == 2

RECURSIVE JoinAll(_)
JoinAll(parts) ==
    IF parts = <<>> THEN <<>> ELSE Head(parts) \o JoinAll(Tail(parts))

\* soup.find_all('p'), p.get_text(strip=True), kept if non-empty
Paragraphs_EveryNode(content) ==
    LET withText == SelectSeq(content, LAMBDA node : node.text # <<>>)
    IN  [k \in 1..Len(withText) |-> withText[k].text]

Paragraphs(content) ==
    LET ps == SelectSeq(content,
                  LAMBDA node : node.tag = "p" /\ node.text # <<>>)
    IN  [k \in 1..Len(ps) |-> ps[k].text]

\* datetime.now(tz).strftime('%Y-%m-%d %H:%M:%S')
ProcessedTime(now) == <<ToString(now)>>

RenMinRiBao == <<"c", "c", "c", "c">>

FrontMatter(info) ==
    JoinAll(<< <<"-", "-", "-", NL>>,
               <<"title", ":", " ">> \o info.title \o <<NL>>,
               <<"date", ":", " ">> \o info.date \o <<NL>>,
               <<"author", ":", " ">> \o info.author \o <<NL>>,
               <<"version", ":", " ">> \o info.version \o <<NL>>,
               <<"source", ":", " ">> \o RenMinRiBao \o <<NL>>,
               <<"original_url", ":", " ">> \o info.original_url \o <<NL>>,
               <<"-", "-", "-", NL, NL>> >>)

Heading(info) ==
    JoinAll(<< <<"#", " ">> \o info.title \o <<NL, NL>>,
               <<"*", "*", "c", "c", "*", "*", ":", " ">> \o info.author
                   \o <<" ", " ", NL>>,
               <<"*", "*", "c", "c", "*", "*", ":", " ">> \o info.date
                   \o <<" ", " ", NL>>,
               <<"*", "*", "c", "c", "*", "*", ":", " ">> \o info.version
                   \o <<" ", " ", NL, NL>> >>)

ParagraphBlock(paragraphs) ==
    JoinAll([k \in 1..Len(paragraphs) |-> paragraphs[k] \o <<NL, NL>>])

Footer(info, now) ==
    JoinAll(<< <<"-", "-", "-", NL, NL>>,
               <<"*", "c", "c", ":", " ", "[">> \o RenMinRiBao \o <<"]", "(">>
                   \o info.original_url \o <<")", "*", " ", " ", NL>>,
               <<"*", "c", "c", "c", "c", ":", " ">> \o ProcessedTime(now)
                   \o <<" ", "(", "c", "c", "c", "c", ")", "*", NL>> >>)

\* article is None (no record) or Some(record)
generate_markdown_article(article, now) ==
    IF IsNone(article) THEN <<>>
    ELSE LET info == The(article)
         IN  JoinAll(<< FrontMatter(info), Heading(info),
                        ParagraphBlock(Paragraphs(info.content)),
                        Footer(info, now) >>)

generate_json_metadata(article, now) ==
    IF IsNone(article) THEN EmptyDict
    ELSE LET info == The(article)
         IN  [ title          |-> info.title,
               author         |-> info.author,
               date           |-> info.date,
               version        |-> info.version,
               version_number |-> info.version_number,
               article_number |-> info.article_number,
               original_url   |-> info.original_url,
               processed_time |-> ProcessedTime(now) ]

\* ---- str.find, str.split, and the front matter parser ----

\* s.find(pat, start): 0-based index of the first occurrence at or after
\* start, -1 when there is none
Find(s, pat, start) ==
    LET hits == { i \in start..(Len(s) - Len(pat)) :
                     SubSeq(s, i + 1, i + Len(pat)) = pat }
    IN  IF hits = {} THEN -1
        ELSE CHOOSE i \in hits : \A j \in hits : i <= j

\* s.split(sep) for a one-character separator
RECURSIVE Split(_, _)
Split(s, sep) ==
    LET at == Find(s, <<sep>>, 0)
    IN  IF at = -1 THEN <<s>>
        ELSE <<SubSeq(s, 1, at)>> \o Split(SubSeq(s, at + 2, Len(s)), sep)

\* for line in frontmatter.split('\n'): if ':' in line:
\*     key, value = line.split(':', 1); metadata[key.strip()] = value.strip()
FrontMatterPairs(frontmatter) ==
    LET lines == SelectSeq(Split(frontmatter, NL),
                           LAMBDA line : Find(line, <<":">>, 0) # -1)
    IN  [k \in 1..Len(lines) |->
            LET at == Find(lines[k], <<":">>, 0)
            IN  [key   |-> Strip(SubSeq(lines[k], 1, at)),
                 value |-> Strip(SubSeq(lines[k], at + 2, Len(lines[k])))]]

\* the dict the loop leaves: the last value assigned to each key
DictOfPairs(pairs) ==
    LET keys == { pairs[k].key[1] : k \in { j \in 1..Len(pairs) : pairs[j].key # <<>> } }
    IN  [name \in keys |->
            LET last == CHOOSE k \in 1..Len(pairs) :
                          /\ pairs[k].key = <<name>>
                          /\ \A j \in (k + 1)..Len(pairs) : pairs[j].key # <<name>>
            IN  pairs[last].value]

\* the parsing half of extract_content: the text of the file to the
\* metadata dict and the main content
ParseFrontMatter(content) ==
    LET end_index == Find(content, <<"-", "-", "-">>, 3)
    IN  IF StartsWith(content, <<"-", "-", "-">>) /\ end_index > 0
        THEN [metadata |-> DictOfPairs(FrontMatterPairs(
                               Strip(SubSeq(content, 4, end_index)))),
              content  |-> Strip(SubSeq(content, end_index + 4, Len(content)))]
        ELSE [metadata |-> EmptyDict, content |-> content]

\* ---- the records the formatter is given ----

\* field values as extract_article_info leaves them: stripped, on one line
FieldTexts ==
    { <<>>, <<"x">>, <<"x", " ", "x">>, <<"x", ":", "x">>, <<"-", "-", "-">> }

UrlTexts == { <<>>, <<"h", ":", "/", "x">> }

BodyNodes == [tag : {"p", "div"}, text : {<<>>, <<"a">>}]

Bodies == UNION { [1..n -> BodyNodes] : n \in 0..MaxNodes }

ArticleRecords ==
    [ title : FieldTexts, author : {<<"x">>}, date : {<<"d">>},
      version : {<<"v">>}, version_number : {<<"0", "1">>},
      article_number : {<<"0", "1">>}, content : Bodies,
      original_url : UrlTexts ]

\* process_article_files, one file: generate_markdown_article and the write
GenerateMarkdownArticle ==
    /\ cmd = "format-article" /\ pc = "markdown"
    /\ \E now \in ClockReads(clock) :
         /\ clock' = now
         /\ markdown' = generate_markdown_article(article_info, now)
    /\ pc' = "json"
    /\ UNCHANGED <<cmd, outputDir, ret, exc, exitStatus, statusLine>>
    /\ UNCHANGED <<summVars, crawlVars, convVars, tokVars, artVars>>
    /\ UNCHANGED <<runs, json_metadata, article_content, html_report, md_report>>

\* process_article_files, one file: generate_json_metadata and the write
GenerateJsonMetadata ==
    /\ cmd = "format-article" /\ pc = "json"
    /\ \E now \in ClockReads(clock) :
         /\ clock' = now
         /\ json_metadata' = generate_json_metadata(article_info, now)
    /\ pc' = "extract"
    /\ UNCHANGED <<cmd, outputDir, ret, exc, exitStatus, statusLine>>
    /\ UNCHANGED <<summVars, crawlVars, convVars, tokVars, artVars>>
    /\ UNCHANGED <<runs, markdown, article_content, html_report, md_report>>

\* FileProcessor.extract_content on the Markdown file just written
ExtractFormatted ==
    /\ cmd = "format-article" /\ pc = "extract"
    /\ content_data' = Some(extract_content("article.md", ParseFrontMatter(markdown)))
    /\ pc' = "returned"
    /\ UNCHANGED <<cmd, clock, outputDir, ret, exc, exitStatus, statusLine>>
    /\ UNCHANGED <<args, scanned, matching_files, selected_file, summarizer,
                   summary_data, summary_file, steps, apiCalls>>
    /\ UNCHANGED <<crawlVars, convVars, tokVars, artVars>>
    /\ UNCHANGED <<runs, fmtVars>>

InitFormat ==
    /\ cmd = "format-article" /\ pc = "markdown"
    /\ html_doc = None
    /\ article_info \in {None} \cup { Some(r) : r \in ArticleRecords }
    /\ outputDir = {}
    /\ InitTok /\ InitProcess /\ InitSumm /\ InitCrawl /\ InitConv /\ InitNoArgs

NextFormat == GenerateMarkdownArticle \/ GenerateJsonMetadata \/ ExtractFormatted

SpecFormat == InitFormat /\ [][NextFormat]_vars

\* ---- C21 ----

MarkdownGenerated == cmd = "format-article" /\ pc \in {"json", "extract", "returned"}
JsonGenerated == cmd = "format-article" /\ pc \in {"extract", "returned"}

TextBearingNodes(content) == SelectSeq(content, LAMBDA node : node.text # <<>>)
TextBearingParagraphs(content) ==
    SelectSeq(content, LAMBDA node : node.tag = "p" /\ node.text # <<>>)

\* the Markdown text is the front matter and heading of the record, then
\* one paragraph for each of the given nodes, then the footer
MarkdownCarries(nodes) ==
    LET info == The(article_info)
    IN  \E now \in StartDay..LastDay :
          markdown = FrontMatter(info) \o Heading(info)
                       \o JoinAll([k \in 1..Len(nodes) |-> nodes[k].text \o <<NL, NL>>])
                       \o Footer(info, now)

JsonCarriesNoBody ==
    JsonGenerated /\ ~IsNone(article_info) =>
        /\ DOMAIN json_metadata = {"title", "author", "date", "version",
               "version_number", "article_number", "original_url", "processed_time"}
        /\ \A f \in {"title", "author", "date", "version", "version_number",
                     "article_number", "original_url"} :
               json_metadata[f] = The(article_info)[f]
        /\ json_metadata.processed_time \in { ProcessedTime(t) : t \in StartDay..LastDay }

\* C21 as stated: the JSON output carries the metadata and a generation
\* timestamp and no body field, and the Markdown output has one paragraph for
\* every text-bearing node of the record's body, so no body text is lost.
C21_ParagraphForEveryTextNode ==
    /\ JsonCarriesNoBody
    /\ MarkdownGenerated /\ ~IsNone(article_info) =>
           MarkdownCarries(TextBearingNodes(The(article_info).content))

\* C21, amended: the JSON output carries the metadata and a generation
\* timestamp and no body field, and the Markdown output has one paragraph
\* for every text-bearing <p> element of the record's body, in document
\* order; body text outside <p> elements is not carried over.
C21_ParagraphForEveryTextParagraph ==
    /\ JsonCarriesNoBody
    /\ MarkdownGenerated /\ ~IsNone(article_info) =>
           MarkdownCarries(TextBearingParagraphs(The(article_info).content))

C21_Witness ==
    /\ JsonGenerated /\ ~IsNone(article_info)
    /\ Len(TextBearingParagraphs(The(article_info).content)) = 1
    /\ Len(TextBearingNodes(The(article_info).content)) = 2

\* ---- C25 ----

WrittenFrontMatter(info) ==
    [ title        |-> info.title,
      date         |-> info.date,
      author       |-> info.author,
      version      |-> info.version,
      source       |-> RenMinRiBao,
      original_url |-> info.original_url ]

\* the text of the Markdown file after the closing --- of its front matter,
\* surrounding white space aside
TextAfterFrontMatter(info) ==
    { Strip(Heading(info) \o ParagraphBlock(Paragraphs(info.content))
              \o Footer(info, now)) : now \in StartDay..LastDay }

Extracted == cmd = "format-article" /\ pc = "returned" /\ ~IsNone(article_info)

\* C25: for every article record whose fields hold no line break,
\* extract_content applied to the Markdown that generate_markdown_article
\* produced returns as metadata exactly the written title, date, author,
\* version, source and original_url, and as body the text that follows the
\* closing --- of the front matter block.
C25_FrontMatterRoundTrip ==
    Extracted =>
        /\ The(content_data).metadata = WrittenFrontMatter(The(article_info))
        /\ The(content_data).content \in TextAfterFrontMatter(The(article_info))

\* ======================================================================
\* ArticleContentFetcher.extract_article_content (crawler/article_fetcher.py)
\* and the body part of ArticleParser.parse_article
\* ======================================================================

\* if len(paragraphs) > 3: the wrapper with every <p> of the document
FetcherFallback(paragraphs) ==
    IF Len(paragraphs) > 3
    THEN Some([kind |-> "wrapper", paragraphs |-> paragraphs])
    ELSE None

\* 'if article_div:' holds for every element select_one returns: a Tag is
\* true whatever it contains
extract_article_content(doc) ==
    IF doc.empty THEN None
    ELSE LET selected == FirstSelected(doc.matches, {"empty", "text"})
         IN  IF ~IsNone(selected) THEN selected
             ELSE FetcherFallback(doc.paragraphs)

\* ---- the documents ----

ParagraphLists == UNION { [1..n -> ParagraphKinds] : n \in 0..MaxParagraphs }

\* at most two of the selectors find an element
MatchLists(n) ==
    { m \in [1..n -> {"none", "empty", "text"}] :
        Cardinality({ k \in 1..n : m[k] # "none" }) <= 2 }

\* parse_article: div#ozoom, div.article, div.article-content, div.content
BodyParserDocs ==
    { [empty |-> FALSE, title_elements |-> [i \in 1..5 |-> None],
       author_elements |-> [i \in 1..3 |-> None], author_meta |-> None,
       matches |-> m, paragraphs |-> ps] :
          m \in MatchLists(4), ps \in ParagraphLists }

\* extract_article_content: selectors 1 and 4 select .article elements, so
\* selector 2 (.article) finds an element whenever one of them does
BodyFetcherDocs ==
    { [empty |-> TRUE, matches |-> [i \in 1..6 |-> "none"], paragraphs |-> <<>>] }
    \cup { [empty |-> FALSE, matches |-> m, paragraphs |-> ps] :
             m \in { x \in MatchLists(6) :
                       (x[1] # "none" \/ x[4] # "none") => x[2] # "none" },
             ps \in ParagraphLists }

ExtractArticleContent ==
    /\ cmd = "extract-article-content" /\ pc = "extract"
    /\ article_content' = extract_article_content(The(html_doc))
    /\ pc' = "returned"
    /\ UNCHANGED <<cmd, clock, outputDir, ret, exc, exitStatus, statusLine>>
    /\ UNCHANGED <<summVars, crawlVars, convVars, tokVars, artVars>>
    /\ UNCHANGED <<runs, markdown, json_metadata, html_report, md_report>>

InitBody ==
    /\ \/ cmd = "parse-article" /\ pc = "parse"
          /\ html_doc \in { Some(d) : d \in BodyParserDocs }
       \/ cmd = "extract-article-content" /\ pc = "extract"
          /\ html_doc \in { Some(d) : d \in BodyFetcherDocs }
    /\ article_info = None
    /\ outputDir = {}
    /\ InitTok /\ InitProcess /\ InitSumm /\ InitCrawl /\ InitConv /\ InitNoArgs

NextBody == ParseArticle \/ ExtractArticleContent

SpecBody == InitBody /\ [][NextBody]_vars

\* ---- C22, C23 ----

\* the body an extraction returned, None for 'no match'
BodyExtracted ==
    /\ pc = "returned"
    /\ cmd \in {"parse-article", "extract-article-content"}
    /\ ~The(html_doc).empty
ExtractedBody ==
    IF cmd = "parse-article" THEN The(article_info).content ELSE article_content

CountedParagraphs == SelectSeq(The(html_doc).paragraphs, LAMBDA p : p = "text")

\* C22: the paragraph fallback is used only when no selector matched; it
\* counts only the text-bearing paragraph elements that are not under a
\* header or footer container, and it synthesizes the wrapper from them only
\* if there are at least 4 of them; with 3 or fewer the result is 'no match'.
C22_FallbackFloorOfFour ==
    BodyExtracted =>
        LET matches == The(html_doc).matches
            matched == \E k \in DOMAIN matches : matches[k] = "text"
        IN  /\ ~IsNone(ExtractedBody) /\ The(ExtractedBody).kind = "wrapper" =>
                  /\ ~matched
                  /\ The(ExtractedBody).paragraphs = CountedParagraphs
                  /\ Len(CountedParagraphs) >= 4
            /\ ~matched /\ Len(CountedParagraphs) >= 4 =>
                  /\ ~IsNone(ExtractedBody)
                  /\ The(ExtractedBody).kind = "wrapper"
            /\ ~matched /\ Len(CountedParagraphs) <= 3 => IsNone(ExtractedBody)

\* C23: the selectors are tried in list order and the result is the match
\* of the first selector whose matched element is non-empty: an element
\* without content is passed over for a later selector with content, and an
\* earlier non-empty match wins over a later one.
C23_FirstNonEmptyMatch ==
    BodyExtracted =>
        LET matches == The(html_doc).matches
            nonEmpty == { k \in DOMAIN matches : matches[k] = "text" }
        IN  nonEmpty # {} =>
              /\ ~IsNone(ExtractedBody)
              /\ The(ExtractedBody).kind = "element"
              /\ The(ExtractedBody).selector \in nonEmpty
              /\ \A j \in nonEmpty : The(ExtractedBody).selector <= j

\* ======================================================================
\* The edition index: the {date}.html and {date}.md of one crawl
\* ======================================================================

\* the index a reader sees in either rendering: for each line after the
\* title whether it is a section heading, its text and its link target
MarkdownIndex ==
    [k \in 1..(Len(md_report) - 1) |->
        [section |-> md_report[k + 1].md = "## [](",
         text    |-> md_report[k + 1].text,
         link    |-> md_report[k + 1].link]]

HtmlIndex ==
    [k \in 1..(Len(html_report) - 1) |->
        [section |-> html_report[k + 1].tag = "h2.version-title",
         text    |-> html_report[k + 1].text,
         link    |-> html_report[k + 1].href]]

BothIndexesWritten ==
    /\ cmd = "crawl" /\ ~IsNone(crawl_result)
    /\ html_report # <<>> /\ md_report # <<>>

\* the sections of the list in input order, each heading linking to the
\* node page of its 1-based position, each followed by its news items
IndexByPosition(versions_data, date_string) ==
    JoinLines([i \in 1..Len(versions_data) |->
        <<[section |-> TRUE, text |-> versions_data[i].title,
           link |-> [month |-> SubSeq(date_string, 1, 6),
                     day |-> SubSeq(date_string, 7, 8),
                     node |-> Format02d(i)]]>>
        \o [j \in 1..versions_data[i].news |->
              [section |-> FALSE, text |-> NewsOf(versions_data[i])[j].title,
               link |-> NewsOf(versions_data[i])[j].url]]])

\* C24: the Markdown index and the HTML index rendered from the same section
\* list agree: the same sections in input order, each heading linking to
\* node_{i:02d}.html with i the 1-based position of the section in the list
\* (not its parsed sectionId), followed by one entry per news item in input
\* order.
C24_IndexesAgree ==
    BothIndexesWritten =>
        /\ MarkdownIndex = HtmlIndex
        /\ HtmlIndex = IndexByPosition(The(crawl_result).versions_data,
                                       The(crawl_result).date_string)

C24_Witness ==
    /\ BothIndexesWritten
    /\ Len(The(crawl_result).versions_data) = 1
    /\ _extract_version_id(The(crawl_result).versions_data[1].url) = 2
    /\ The(crawl_result).versions_data[1].news = 1

\* ---- C30 ----

\* int() of the digits of a node_NN page name
NodeNumber(digits) == CHOOSE i \in 0..99 : Format02d(i) = digits

EverySectionFetched ==
    /\ BothIndexesWritten
    /\ Len(The(crawl_result).versions_data) = Len(versions)
    /\ \A k \in 1..Len(versions) : _extract_version_id(versions[k]) = k

HeadingsOf(index) == SelectSeq(index, LAMBDA entry : entry.section)

\* C30: when every section fetch succeeded and the sections carry the ids
\* 1..n in document order, every heading of the rendered index links to the
\* node_NN page whose number is that section's own parsed sectionId.
C30_HeadingLinksToOwnSection ==
    EverySectionFetched =>
        \A index \in {MarkdownIndex, HtmlIndex} :
            /\ Len(HeadingsOf(index)) = Len(versions)
            /\ \A k \in 1..Len(versions) :
                  NodeNumber(HeadingsOf(index)[k].link.node)
                      = _extract_version_id(The(crawl_result).versions_data[k].url)

C30_Witness ==
    /\ EverySectionFetched
    /\ Len(versions) = 2

\* ---- C26 ----

\* the edition stage ran and ended at its root page: the fetch failed or the
\* page had no section link
EditionRootFailed ==
    /\ cmd = "crawl" /\ ~IsNone(crawl_result)
    /\ pc # "root" /\ versions = <<>>

\* C26: when the fetch of the edition root fails or no section link is
\* extracted, crawl issues no section fetch, writes no {date}.html and
\* returns the failure result, and process_news then skips the Markdown
\* conversion, writes no {date}.md and returns False.
C26_RootFailureStopsEdition ==
    EditionRootFailed =>
        LET result == The(crawl_result)
        IN  /\ SectionRequests = <<>>
            /\ ~result.success /\ result.versions_data = <<>>
            /\ (result.date_string \o HtmlExt) \notin outputDir
            /\ html_report = <<>>
            /\ (result.date_string \o MdExt) \notin outputDir
            /\ md_report = <<>>
            /\ pc # "convert" => news_ok = "False"

C26_Witness ==
    /\ EditionRootFailed
    /\ net[1] = Request(<<"root", 0>>, TRUE)
    /\ news_ok = "False"

\* ======================================================================
\* ArticleContentFetcher.get_first_article_url (crawler/article_fetcher.py)
\* ======================================================================
\* The node_01 page of an edition, as the function sees it: whether the
\* request succeeded, for each of the four news-list selectors the element
\* select_one returns ("none", or one of the containers of the page),
\* and the anchors that carry an href, in document order, each with the
\* container it lies in ("none": in none).

MaxLinks == 2
Containers == {"ul.a", "ul.b"}

Hrefs == { <<"content_", "1", ".html">>, <<"content_", "2", ".html">>,
           <<"node_", "2", ".html">> }

\* urljoin(version_url, href) of a relative href
urljoin(version_url, href) == [base |-> version_url, path |-> href]

\* f"{base_url}/{year:04d}{month:02d}/{day:02d}/node_01.html"
FirstSectionUrl(date_string) == <<date_string, "node_", "0", "1", ".html">>

\* 'content_' in href and href.endswith('.html')
IsContentLink(href) == Contains(href, "content_") /\ EndsWith(href, <<".html">>)

\* the first of the anchors at the given positions
FirstOf(anchors, hits) ==
    IF hits = {} THEN None
    ELSE Some(anchors[CHOOSE k \in hits : \A j \in hits : k <= j])

\* the loop over news_selectors: the element of the first selector that
\* finds one, "none" when none does
NewsList(selected) ==
    LET hits == { k \in DOMAIN selected : selected[k] # "none" }
    IN  IF hits = {} THEN "none"
        ELSE selected[CHOOSE k \in hits : \A j \in hits : k <= j]

get_first_article_url_AnyContainer(page, version_url) ==
    LET first_news == FirstOf(page.anchors,
                       { k \in 1..Len(page.anchors) : page.anchors[k].container # "none" })
        first_link == FirstOf(page.anchors,
                       { k \in 1..Len(page.anchors) : IsContentLink(page.anchors[k].href) })
    IN  IF ~page.ok THEN None
        ELSE IF ~IsNone(first_news) THEN Some(urljoin(version_url, The(first_news).href))
        ELSE IF ~IsNone(first_link) THEN Some(urljoin(version_url, The(first_link).href))
        ELSE None

get_first_article_url(page, version_url) ==
    LET news_list == NewsList(page.selected)
        first_news == IF news_list = "none" THEN None
                      ELSE FirstOf(page.anchors,
                              { k \in 1..Len(page.anchors) :
                                  page.anchors[k].container = news_list })
        first_link == FirstOf(page.anchors,
                       { k \in 1..Len(page.anchors) : IsContentLink(page.anchors[k].href) })
    IN  IF ~page.ok THEN None
        ELSE IF ~IsNone(first_news) THEN Some(urljoin(version_url, The(first_news).href))
        ELSE IF ~IsNone(first_link) THEN Some(urljoin(version_url, The(first_link).href))
        ELSE None

\* the page as fetch_and_save_first_article sees it
PageOutcome(page, url) ==
    IF ~page.ok THEN "error" ELSE IF IsNone(url) THEN "nolink" ELSE "link"

AnchorLists ==
    UNION { [1..n -> [href : Hrefs, container : {"none"} \cup Containers]] : n \in 0..MaxLinks }

\* ul.news-list is also .news-list, and div.news > ul is also .news ul
Selections ==
    { s \in [1..4 -> {"none"} \cup Containers] :
        /\ s[4] # "none" => s[2] # "none"
        /\ s[1] # "none" => s[3] # "none" }

SectionPages ==
    { [ok |-> FALSE, selected |-> [k \in 1..4 |-> "none"], anchors |-> <<>>] }
    \cup { p \in [ok : {TRUE}, selected : Selections, anchors : AnchorLists] :
             \A k \in 1..Len(p.anchors) :
                 \/ p.anchors[k].container = "none"
                 \/ \E j \in 1..4 : p.selected[j] = p.anchors[k].container }

\* fetch_and_save_first_article for the edition of the clock's day
FetchAndSaveFirstArticle ==
    /\ cmd = "fetch-first-article" /\ pc = "main"
    /\ \E content \in ContentOutcomes, saved \in SaveOutcomes :
         LET page == The(html_doc)
             date_string == Strftime_Ymd(clock)
             url == get_first_article_url(page, FirstSectionUrl(date_string))
             outcome == PageOutcome(page, url)
             r == fetch_and_save_first_article(date_string, outcome, content, saved)
         IN  /\ article_result' = Some([r EXCEPT !.article_url = url])
             /\ net' = net \o ArticleRequests(r, outcome, content)
             /\ outputDir' = outputDir \cup ArticleFiles(r)
    /\ pc' = "returned"
    /\ UNCHANGED <<cmd, clock, ret, exc, exitStatus, statusLine>>
    /\ UNCHANGED <<date_arg, only_article, versions, vidx, all_versions_data,
                   crawl_result, news_ok, stages>>
    /\ UNCHANGED <<summVars, convVars, tokVars, artVars, runs, fmtVars>>

InitFirstArticle ==
    /\ cmd = "fetch-first-article" /\ pc = "main"
    /\ html_doc \in { Some(p) : p \in SectionPages }
    /\ article_info = None
    /\ outputDir = {}
    /\ InitTok /\ InitProcess /\ InitSumm /\ InitCrawl /\ InitConv /\ InitNoArgs

NextFirstArticle == FetchAndSaveFirstArticle

SpecFirstArticle == InitFirstArticle /\ [][NextFirstArticle]_vars

\* ---- C27 ----

FirstArticleReturned == cmd = "fetch-first-article" /\ pc = "returned"

\* the hrefs of the anchors inside the container matched by the first
\* matching selector, in document order
NewsListHrefs ==
    LET page == The(html_doc)
        matching == { k \in 1..4 : page.selected[k] # "none" }
        first == CHOOSE k \in matching : \A j \in matching : k <= j
        inside == SelectSeq(page.anchors,
                            LAMBDA a : a.container = page.selected[first])
    IN  IF matching = {} THEN <<>>
        ELSE [k \in 1..Len(inside) |-> inside[k].href]

ContentHrefs ==
    LET links == SelectSeq(The(html_doc).anchors, LAMBDA a : IsContentLink(a.href))
    IN  [k \in 1..Len(links) |-> links[k].href]

AbsoluteUrl(href) ==
    Some([base |-> FirstSectionUrl(Strftime_Ymd(clock)), path |-> href])

\* C27: get_first_article_url returns the absolute URL of the first anchor
\* inside the news-list container matched by the first matching selector;
\* only if that yields no anchor does it return the first content_*.html
\* link of the page; if neither exists or the section request fails there
\* is no URL, and fetch_and_save_first_article issues no article request
\* and writes no file.
C27_FirstArticleUrl ==
    FirstArticleReturned =>
        LET url == The(article_result).article_url
        IN  IF The(html_doc).ok /\ NewsListHrefs # <<>>
            THEN url = AbsoluteUrl(NewsListHrefs[1])
            ELSE IF The(html_doc).ok /\ ContentHrefs # <<>>
            THEN url = AbsoluteUrl(ContentHrefs[1])
            ELSE /\ IsNone(url)
                 /\ \A k \in 1..Len(net) : net[k].target[1] # "article"
                 /\ outputDir = {}

C27_Witness ==
    /\ FirstArticleReturned
    /\ The(html_doc).ok /\ NewsListHrefs = <<>>
    /\ NewsList(The(html_doc).selected) # "none"
    /\ Len(ContentHrefs) = 2 /\ ContentHrefs[1] # ContentHrefs[2]
    /\ outputDir # {}

\* ---- C29 ----

\* C29: in find_matching_files the fallback date is always exactly one
\* calendar day before the date that was scanned first, also when the clock
\* passes midnight between the first scan and the computation of the
\* fallback date.
C29_FallbackIsDayBeforeFirstScan ==
    (cmd = "ai-summarize" /\ Len(scanned) = 2) =>
        scanned[2] = DayBefore(scanned[1])

\* ---- C28 ----

IsEditionIndexName(f) == \E d \in (StartDay - 2)..LastDay : f = Strftime_Ymd(d) \o MdExt

\* what find_matching_files returns on a directory, for every pair of clock
\* reads it may make
Discovery(listing) ==
    [t \in (StartDay..LastDay) \X (StartDay..LastDay) |->
        find_matching_files(listing, t[1], t[2])]

\* C28: a summarize run never changes what discovery returns: neither the
\* summary file it writes nor the edition index passes the article filter,
\* so a summary is never selected as a source, and find_matching_files
\* returns the same set right before and right after any step of the run.
C28_SummarizeLeavesDiscoveryUnchanged ==
    /\ [](cmd = "ai-summarize" =>
            /\ \A f \in outputDir :
                  (IsSummaryName(f) \/ IsEditionIndexName(f)) =>
                      \A t \in DOMAIN Discovery(outputDir) :
                          f \notin Discovery(outputDir)[t]
            /\ \A f \in matching_files : ~IsSummaryName(f) /\ ~IsEditionIndexName(f)
            /\ ~IsNone(selected_file) =>
                  ~IsSummaryName(The(selected_file)))
    /\ [][cmd = "ai-summarize" => Discovery(outputDir') = Discovery(outputDir)]_vars

C28_Witness ==
    /\ cmd = "ai-summarize" /\ ~IsNone(summary_file)
    /\ The(summary_file) \in outputDir
    /\ (Strftime_Ymd(StartDay) \o MdExt) \in outputDir
    /\ steps = StepOrder

====
